---------------------------- MODULE Spec2Model ----------------------------
(***************************************************************************)
(* Sound localization server (jeloy-xii): the in-memory store, the         *)
(* POST /packet and POST /mode handlers, the operator console, the onset   *)
(* detector, the event correlator and the gates of the TDOA solver.        *)
(*                                                                         *)
(* Units.  Timestamps and Date.now() are whole milliseconds.  Receiver     *)
(* coordinates are whole metres.  A solver position is counted in          *)
(* PosUnit-ths of a metre (1e-5 m), one digit finer than the four decimals *)
(* the solver rounds to.  Loudness on the wire is a raw amplitude; toDb    *)
(* results are counted in tenths of a dB.                                  *)
(***************************************************************************)
EXTENDS Integers, Sequences, FiniteSets, TLC

VARIABLES
    currentMode,      \* store.js: currentMode
    syncBuffer,       \* store.js: syncBuffer   (deviceId -> {timestamp, receivedAt})
    syncRounds,       \* store.js: syncRounds   (array of {offsets})
    clockOffsets,     \* store.js: clockOffsets (deviceId -> ms)
    pendingPackets,   \* store.js: pendingPackets
    soundEvents,      \* store.js: soundEvents
    eventCounter,     \* store.js: eventCounter
    wsClients,        \* broadcast.js: number of wss.clients with readyState OPEN
    now,              \* Date.now()
    gnMemo,           \* results of the Gauss-Newton iteration, per solver input
    nextPid,          \* identity of the next packet object created
    accepted,         \* history: the packets queued; the packet with identity p is accepted[p]
    consumedBy,       \* history: consumedBy[p] is the ids of the events that used packet p
    evicted,          \* history: identities of the packets evicted as stale
    drift,            \* the listeners' clocks: drift[id] ms ahead of true time
    detector,         \* a packet and a shift given to detectClapOnset, and what it returned
    solver,           \* tdoa.js: one call of localize, at an iteration of its loop
    medianCall,       \* packet.js: one call of computeMedianOffsets and what it returned
    sinceModeSet,     \* history: the listeners whose onset entered the SyncBuffer since the mode was last set
    response,         \* the HTTP response of the last request
    effects           \* what the last request did, in program order

vars == <<currentMode, syncBuffer, syncRounds, clockOffsets, pendingPackets,
          soundEvents, eventCounter, wsClients, now, gnMemo, nextPid,
          accepted, consumedBy, evicted, drift, detector, solver, medianCall,
          sinceModeSet, response, effects>>

storeVars == <<currentMode, syncBuffer, syncRounds, clockOffsets,
               pendingPackets, soundEvents, eventCounter>>

packetHistory == <<gnMemo, nextPid, accepted, consumedBy, evicted, drift,
                   detector, solver, medianCall>>

historyVars == <<packetHistory, sinceModeSet>>

-----------------------------------------------------------------------------
(* Configuration *)

SPEED_OF_SOUND == 343

DeviceIds == <<"phone-a", "phone-b", "phone-c">>

DEVICES ==
    [id \in {"phone-a", "phone-b", "phone-c"} |->
        CASE id = "phone-a" -> [x |-> -5, y |-> 1]
          [] id = "phone-b" -> [x |-> 5, y |-> 1]
          [] id = "phone-c" -> [x |-> 0, y |-> 7]]

EVENT_WINDOW_MS == 200

MIN_DEVICES_FOR_LOCALIZATION == 3

\* Read from config by soundDetection.js and routes/packet.js; the config
\* file at hand does not set them, the values are the documented defaults.
CLAP_THRESHOLD == 10000

SYNC_WINDOW_MS == 5000

SYNC_ROUNDS == 10

MaxStoredEvents == 100

ROOM_MARGIN == 2

PosUnit == 100000

VALID_MODES == {"sync", "localize"}

Null == [type |-> "null"]

-----------------------------------------------------------------------------
(* Arithmetic helpers *)

Abs(x) == IF x < 0 THEN -x ELSE x

RECURSIVE SeqMin(_)
SeqMin(s) ==
    IF Len(s) = 1 THEN s[1]
    ELSE LET m == SeqMin(Tail(s)) IN IF s[1] < m THEN s[1] ELSE m

RECURSIVE SeqMax(_)
SeqMax(s) ==
    IF Len(s) = 1 THEN s[1]
    ELSE LET m == SeqMax(Tail(s)) IN IF s[1] > m THEN s[1] ELSE m

\* floor(sqrt(n)) by bisection on [lo, hi), lo*lo <= n < hi*hi
RECURSIVE IsqrtIn(_, _, _)
IsqrtIn(n, lo, hi) ==
    IF hi - lo <= 1 THEN lo
    ELSE LET mid == (lo + hi) \div 2
         IN IF mid * mid <= n THEN IsqrtIn(n, mid, hi) ELSE IsqrtIn(n, lo, mid)

Isqrt(n) == IsqrtIn(n, 0, 46340)

\* Array.prototype.sort((a, b) => a - b) on numbers: insertion into a sorted prefix
RECURSIVE InsertSorted(_, _)
InsertSorted(v, s) ==
    IF s = <<>> THEN <<v>>
    ELSE IF v < s[1] THEN <<v>> \o s
    ELSE <<s[1]>> \o InsertSorted(v, Tail(s))

RECURSIVE SortNumbers(_)
SortNumbers(s) ==
    IF s = <<>> THEN <<>>
    ELSE InsertSorted(s[Len(s)], SortNumbers(SubSeq(s, 1, Len(s) - 1)))

RemoveAt(s, i) == SubSeq(s, 1, i - 1) \o SubSeq(s, i + 1, Len(s))

-----------------------------------------------------------------------------
(* JSON values of a request body, tagged with their JavaScript type *)

Num(v) == [type |-> "number", v |-> v]

Str(v) == [type |-> "string", v |-> v]

Undefined == [type |-> "undefined"]

\* One element of the posted array that is an object with these properties
Obj(deviceId, timestamp, loudnessDb) ==
    [type |-> "object", deviceId |-> deviceId, timestamp |-> timestamp,
     loudnessDb |-> loudnessDb]

ArrayBody(items) == [type |-> "array", items |-> items]

\* !v
Falsy(v) ==
    \/ v.type \in {"undefined", "null"}
    \/ v.type = "string" /\ v.v = ""
    \/ v.type = "number" /\ v.v = 0

\* s.prop for an element s of the array: undefined on a primitive
Prop(s, name) ==
    IF s.type # "object" THEN Undefined
    ELSE CASE name = "deviceId" -> s.deviceId
           [] name = "timestamp" -> s.timestamp
           [] name = "loudnessDb" -> s.loudnessDb

\* Names every object literal inherits from Object.prototype
InheritedNames == {"constructor", "toString", "valueOf", "hasOwnProperty"}

\* DEVICES[id] is truthy
DeviceLookupTruthy(id) ==
    /\ id.type = "string"
    /\ id.v \in DOMAIN DEVICES \cup InheritedNames

-----------------------------------------------------------------------------
(* soundDetection.js *)

\* [...samples].sort((a, b) => a.timestamp - b.timestamp), a stable sort:
\* v, which came before all of s, goes before the first element not earlier than it
RECURSIVE InsertByTimestamp(_, _)
InsertByTimestamp(v, s) ==
    IF s = <<>> THEN <<v>>
    ELSE IF s[1].timestamp < v.timestamp
         THEN <<s[1]>> \o InsertByTimestamp(v, Tail(s))
         ELSE <<v>> \o s

\* Leaves the samples in the order of the packet
SortAsReceived(s) == s

RECURSIVE SortByTimestamp(_)
SortByTimestamp(s) ==
    IF s = <<>> THEN <<>>
    ELSE InsertByTimestamp(s[1], SortByTimestamp(Tail(s)))

\* Takes the latest of equal jumps
RECURSIVE BiggestJumpLatest(_, _, _, _)
BiggestJumpLatest(sorted, i, bestJump, onsetIdx) ==
    IF i > Len(sorted) THEN onsetIdx
    ELSE LET jump == sorted[i].loudnessDb - sorted[i - 1].loudnessDb
         IN IF onsetIdx = 1 \/ jump >= bestJump
            THEN BiggestJumpLatest(sorted, i + 1, jump, i)
            ELSE BiggestJumpLatest(sorted, i + 1, bestJump, onsetIdx)

\* Index (1-based) of the largest first difference, the earliest on a tie.
\* onsetIdx = 1 stands for the start of the loop, where bestJump is -Infinity.
RECURSIVE BiggestJump(_, _, _, _)
BiggestJump(sorted, i, bestJump, onsetIdx) ==
    IF i > Len(sorted) THEN onsetIdx
    ELSE LET jump == sorted[i].loudnessDb - sorted[i - 1].loudnessDb
         IN IF onsetIdx = 1 \/ jump > bestJump
            THEN BiggestJump(sorted, i + 1, jump, i)
            ELSE BiggestJump(sorted, i + 1, bestJump, onsetIdx)

\* Interpolates on the pair of the biggest jump, without walking back
CrossingAtJump(sorted, i) == i

\* Walk back from onsetIdx to the first pair whose earlier sample is below
\* threshold; 1 (the first sample) when there is none
RECURSIVE CrossingIdx(_, _)
CrossingIdx(sorted, i) ==
    IF i < 2 THEN 1
    ELSE IF sorted[i - 1].loudnessDb < CLAP_THRESHOLD THEN i
    ELSE CrossingIdx(sorted, i - 1)

\* fraction * above.timestamp
InterpolatedFromZero(below, above) ==
    LET range == above.loudnessDb - below.loudnessDb
        num == CLAP_THRESHOLD - below.loudnessDb
        clamped == IF num < 0 THEN 0 ELSE IF num > range THEN range ELSE num
    IN IF range > 0
       THEN (clamped * above.timestamp) \div range
       ELSE above.timestamp \div 2

\* below.timestamp + fraction * dt; the quotient is whole on the packets used here
InterpolatedTimestamp(below, above) ==
    LET range == above.loudnessDb - below.loudnessDb
        dt == above.timestamp - below.timestamp
        num == CLAP_THRESHOLD - below.loudnessDb
        clamped == IF num < 0 THEN 0 ELSE IF num > range THEN range ELSE num
    IN IF range > 0
       THEN below.timestamp + (clamped * dt) \div range
       ELSE below.timestamp + dt \div 2

\* Takes the biggest jump for a clap however quiet
detectClapOnsetAnyJump(samples) ==
    IF Len(samples) = 0 THEN Null
    ELSE IF Len(samples) = 1 THEN samples[1]
    ELSE LET sorted == SortByTimestamp(samples)
             onsetIdx == BiggestJump(sorted, 2, 0, 1)
             crossingIdx == CrossingIdx(sorted, onsetIdx)
         IN IF crossingIdx = 1 THEN sorted[1]
            ELSE LET below == sorted[crossingIdx - 1]
                     above == sorted[crossingIdx]
                 IN [deviceId |-> above.deviceId,
                     timestamp |-> InterpolatedTimestamp(below, above),
                     loudnessDb |-> sorted[onsetIdx].loudnessDb]

detectClapOnset(samples) ==
    IF Len(samples) = 0 THEN Null
    ELSE IF Len(samples) = 1 THEN samples[1]
    ELSE LET sorted == SortByTimestamp(samples)
             onsetIdx == BiggestJump(sorted, 2, 0, 1)
         IN IF sorted[onsetIdx].loudnessDb < CLAP_THRESHOLD THEN Null
            ELSE LET crossingIdx == CrossingIdx(sorted, onsetIdx)
                 IN IF crossingIdx = 1 THEN sorted[1]
                    ELSE LET below == sorted[crossingIdx - 1]
                             above == sorted[crossingIdx]
                         IN [deviceId |-> above.deviceId,
                             timestamp |-> InterpolatedTimestamp(below, above),
                             loudnessDb |-> sorted[onsetIdx].loudnessDb]

\* The samples below and above of step 3, <<>> when the call returns before it
CrossingPair(samples) ==
    IF Len(samples) < 2 THEN <<>>
    ELSE LET sorted == SortByTimestamp(samples)
             onsetIdx == BiggestJump(sorted, 2, 0, 1)
         IN IF sorted[onsetIdx].loudnessDb < CLAP_THRESHOLD THEN <<>>
            ELSE LET crossingIdx == CrossingIdx(sorted, onsetIdx)
                 IN IF crossingIdx = 1 THEN <<>>
                    ELSE <<sorted[crossingIdx - 1], sorted[crossingIdx]>>

-----------------------------------------------------------------------------
(* store.js *)

EmptyMap == [k \in {} |-> 0]

\* Applies no correction
getClockOffsetNone(offsets, deviceId) == 0

\* clockOffsets[deviceId] || 0
getClockOffset(offsets, deviceId) ==
    IF deviceId \in DOMAIN offsets THEN offsets[deviceId] ELSE 0

\* if (offsetMs) clockOffsets[deviceId] = offsetMs: an offset of 0 is not stored
setClockOffsetSkipsZero(offsets, deviceId, offsetMs) ==
    IF offsetMs = 0 THEN offsets
    ELSE [k \in DOMAIN offsets \cup {deviceId} |->
            IF k = deviceId THEN offsetMs ELSE offsets[k]]

setClockOffset(offsets, deviceId, offsetMs) ==
    [k \in DOMAIN offsets \cup {deviceId} |->
        IF k = deviceId THEN offsetMs ELSE offsets[k]]

\* Stores the time of arrival as the onset's timestamp
setSyncPacketStoresArrival(buffer, deviceId, timestamp, t) ==
    [k \in DOMAIN buffer \cup {deviceId} |->
        IF k = deviceId THEN [timestamp |-> t, receivedAt |-> t]
        ELSE buffer[k]]

setSyncPacket(buffer, deviceId, timestamp, t) ==
    [k \in DOMAIN buffer \cup {deviceId} |->
        IF k = deviceId THEN [timestamp |-> timestamp, receivedAt |-> t]
        ELSE buffer[k]]

\* pendingPackets.indexOf(p): the position of that very object, 0 when absent
IndexOf(packets, p) ==
    IF \E i \in 1..Len(packets) : packets[i].pid = p.pid
    THEN CHOOSE i \in 1..Len(packets) :
            /\ packets[i].pid = p.pid
            /\ \A j \in 1..(i - 1) : packets[j].pid # p.pid
    ELSE 0

\* Removes the first packet of the list only
removeFirstPacketOnly(pending, packets) ==
    IF packets = <<>> THEN pending
    ELSE LET idx == IndexOf(pending, packets[1])
         IN IF idx # 0 THEN RemoveAt(pending, idx) ELSE pending

RECURSIVE removePendingPackets(_, _)
removePendingPackets(pending, packets) ==
    IF packets = <<>> THEN pending
    ELSE LET idx == IndexOf(pending, packets[1])
         IN removePendingPackets(
                IF idx # 0 THEN RemoveAt(pending, idx) ELSE pending,
                Tail(packets))

\* Drops the oldest event as soon as the log is full
addSoundEventShiftsEarly(events, counter, event, t) ==
    LET stored == [event EXCEPT !.id = counter + 1, !.createdAt = t]
        pushed == Append(events, stored)
    IN [event |-> stored,
        soundEvents |-> IF Len(pushed) >= MaxStoredEvents THEN Tail(pushed) ELSE pushed,
        eventCounter |-> counter + 1]

\* Returns the stored event, the event log and the counter
addSoundEvent(events, counter, event, t) ==
    LET stored == [event EXCEPT !.id = counter + 1, !.createdAt = t]
        pushed == Append(events, stored)
    IN [event |-> stored,
        soundEvents |-> IF Len(pushed) > MaxStoredEvents THEN Tail(pushed) ELSE pushed,
        eventCounter |-> counter + 1]

-----------------------------------------------------------------------------
(* localization/tdoa.js *)

\* 1000 * dist(r0, r1), in whole millimetres (rounded down)
DistMm(x1, y1, x2, y2) ==
    Isqrt(((x1 - x2) * (x1 - x2) + (y1 - y2) * (y1 - y2)) * 1000000)

\* x.toFixed(digits) of a value counted in units, step units to the last digit kept
ToFixed(v, step) ==
    LET half == step \div 2
    IN IF v >= 0 THEN ((v + half) \div step) * step
       ELSE -(((-v + half) \div step) * step)

\* |rd| > maxRd, with rd = (t1 - t0) / 1000 * SPEED_OF_SOUND metres: in millimetres
\* rd is the whole number SPEED_OF_SOUND * (t1 - t0)
Infeasible(r0, r1) ==
    Abs(SPEED_OF_SOUND * (r1.timestamp - r0.timestamp)) > DistMm(r0.x, r0.y, r1.x, r1.y)

xMin == (-5 - ROOM_MARGIN) * PosUnit
xMax == (5 + ROOM_MARGIN) * PosUnit
yMin == -(7 * PosUnit) \div 2 - ROOM_MARGIN * PosUnit
yMax == (7 * PosUnit) \div 2 + ROOM_MARGIN * PosUnit

OutsideRoom(x, y) == x < xMin \/ x > xMax \/ y < yMin \/ y > yMax

\* The input the Gauss-Newton iteration depends on: tdoa10 and tdoa20
SolverInput(receivers) ==
    <<receivers[2].timestamp - receivers[1].timestamp,
      receivers[3].timestamp - receivers[1].timestamp>>

\* Whether localize(receivers) reaches the iteration
RunsIteration(receivers) ==
    /\ Len(receivers) >= 3
    /\ ~Infeasible(receivers[1], receivers[2])
    /\ ~Infeasible(receivers[1], receivers[3])

\* Tests the feasibility of rd10 only
localizeChecksFirstPair(receivers, gn) ==
    IF Len(receivers) < 3 THEN Null
    ELSE IF Infeasible(receivers[1], receivers[2]) THEN Null
    ELSE IF OutsideRoom(gn.x, gn.y) THEN Null
    ELSE [type |-> "object",
          x |-> ToFixed(gn.x, 10),
          y |-> ToFixed(gn.y, 10),
          residual |-> ToFixed(gn.residual, 10)]

\* gn: where the iteration ends for this input, [x, y] in 1e-5 m and the
\* residual in 1e-7 m
localize(receivers, gn) ==
    IF Len(receivers) < 3 THEN Null
    ELSE IF Infeasible(receivers[1], receivers[2])
            \/ Infeasible(receivers[1], receivers[3]) THEN Null
    ELSE IF OutsideRoom(gn.x, gn.y) THEN Null
    ELSE [type |-> "object",
          x |-> ToFixed(gn.x, 10),
          y |-> ToFixed(gn.y, 10),
          residual |-> ToFixed(gn.residual, 10)]

\* The loop of localize in fixed point: lengths are whole millimetres,
\* timestamps whole microseconds, direction cosines and the entries of J are
\* counted in 1e-4, with J taken in metres per metre (c * J of the code, and
\* c * f for the residuals, which leaves the step (J^T J)^-1 J^T f as it is).
MAX_ITERATIONS == 200

\* a / b to the nearest whole number
RoundDiv(a, b) ==
    LET n == IF b < 0 THEN -a ELSE a
        d == Abs(b)
    IN IF n >= 0 THEN (n + d \div 2) \div d ELSE -((-n + d \div 2) \div d)

\* dist(x1, y1, x2, y2) on millimetres
dist(x1, y1, x2, y2) == Isqrt((x1 - x2) * (x1 - x2) + (y1 - y2) * (y1 - y2))

\* dist(...) || 1e-9: a distance of zero is replaced by the least positive one
distOr(x1, y1, x2, y2) ==
    LET d == dist(x1, y1, x2, y2) IN IF d = 0 THEN 1 ELSE d

\* rd = (r1.timestamp - r0.timestamp) / 1000 * SPEED_OF_SOUND, in millimetres
RangeDifference(r0, r1) ==
    RoundDiv(SPEED_OF_SOUND * (r1.timestamp - r0.timestamp), 1000)

\* Math.abs(rd) > dist(r0, r1)
ExceedsPhysicalLimit(r0, r1) ==
    Abs(RangeDifference(r0, r1)) > dist(r0.x, r0.y, r1.x, r1.y)

\* The initial estimate: the centroid of the receivers
Centroid(receivers) ==
    [x |-> RoundDiv(receivers[1].x + receivers[2].x + receivers[3].x, 3),
     y |-> RoundDiv(receivers[1].y + receivers[2].y + receivers[3].y, 3)]

\* (d1 - d0) - rd10 and (d2 - d0) - rd20 at (x, y), in millimetres
RangeResiduals(x, y, receivers) ==
    LET d0 == distOr(x, y, receivers[1].x, receivers[1].y)
        d1 == distOr(x, y, receivers[2].x, receivers[2].y)
        d2 == distOr(x, y, receivers[3].x, receivers[3].y)
    IN <<(d1 - d0) - RangeDifference(receivers[1], receivers[2]),
         (d2 - d0) - RangeDifference(receivers[1], receivers[3])>>

\* Row i of the Jacobian at (x, y): the direction cosines towards receiver i
\* less those towards receiver 0
JacobianRow(x, y, r0, ri) ==
    LET d0 == distOr(x, y, r0.x, r0.y)
        di == distOr(x, y, ri.x, ri.y)
    IN <<RoundDiv((x - ri.x) * 10000, di) - RoundDiv((x - r0.x) * 10000, d0),
         RoundDiv((y - ri.y) * 10000, di) - RoundDiv((y - r0.y) * 10000, d0)>>

\* Takes the first residual and the first row of the Jacobian only
GaussNewtonStepFirstRow(est, receivers) ==
    LET f == RangeResiduals(est.x, est.y, receivers)
        j1 == JacobianRow(est.x, est.y, receivers[1], receivers[2])
        A11 == RoundDiv(j1[1] * j1[1], 1000000)
        A12 == RoundDiv(j1[1] * j1[2], 1000000)
        A22 == RoundDiv(j1[2] * j1[2], 1000000)
        b1 == -RoundDiv(j1[1] * f[1], 10000)
        b2 == -RoundDiv(j1[2] * f[1], 10000)
        det == A11 * A22 - A12 * A12
    IN IF det = 0 THEN [x |-> est.x, y |-> est.y, stop |-> TRUE]
       ELSE LET dx == RoundDiv((A22 * b1 - A12 * b2) * 100, det)
                dy == RoundDiv((A11 * b2 - A12 * b1) * 100, det)
            IN [x |-> est.x + dx, y |-> est.y + dy, stop |-> dx = 0 /\ dy = 0]

\* One pass of the loop at the estimate est: the next estimate, and whether
\* the loop is left (the matrix J^T J is singular, or the step is below the
\* tolerance: here, a step that rounds to no millimetre).  J^T J is counted
\* in 1e-2, J^T f in millimetres.
GaussNewtonStep(est, receivers) ==
    LET f == RangeResiduals(est.x, est.y, receivers)
        j1 == JacobianRow(est.x, est.y, receivers[1], receivers[2])
        j2 == JacobianRow(est.x, est.y, receivers[1], receivers[3])
        A11 == RoundDiv(j1[1] * j1[1] + j2[1] * j2[1], 1000000)
        A12 == RoundDiv(j1[1] * j1[2] + j2[1] * j2[2], 1000000)
        A22 == RoundDiv(j1[2] * j1[2] + j2[2] * j2[2], 1000000)
        b1 == -RoundDiv(j1[1] * f[1] + j2[1] * f[2], 10000)
        b2 == -RoundDiv(j1[2] * f[1] + j2[2] * f[2], 10000)
        det == A11 * A22 - A12 * A12
    IN IF det = 0 THEN [x |-> est.x, y |-> est.y, stop |-> TRUE]
       ELSE LET dx == RoundDiv((A22 * b1 - A12 * b2) * 100, det)
                dy == RoundDiv((A11 * b2 - A12 * b1) * 100, det)
            IN [x |-> est.x + dx, y |-> est.y + dy, stop |-> dx = 0 /\ dy = 0]

\* res1 ** 2 + res2 ** 2 at the final estimate, in square millimetres: the
\* residual is the square root of half of it
ResidualSquares(est, receivers) ==
    LET f == RangeResiduals(est.x, est.y, receivers)
    IN f[1] * f[1] + f[2] * f[2]

\* What localize returns from the final estimate: null outside the room
\* bounds, else the position (in 1e-5 m) and the residual (in 1e-7 m)
SolverResult(est, receivers) ==
    IF OutsideRoom(100 * est.x, 100 * est.y) THEN Null
    ELSE [type |-> "object",
          x |-> 100 * est.x,
          y |-> 100 * est.y,
          residual |->
              LET sq == ResidualSquares(est, receivers)
              IN IF sq <= 40000000 THEN 1000 * Isqrt(50 * sq)
                 ELSE 10000 * Isqrt(sq \div 2)]

-----------------------------------------------------------------------------
(* broadcast.js *)

\* broadcastEvent sends to every open client and then logs event.position.x:
\* a TypeError when something was sent and the position is null
broadcastThrows(event, clients) == clients > 0 /\ event.position = Null

-----------------------------------------------------------------------------
(* eventProcessor.js *)

\* byDevice[id]: the pending packets of that device, in queue order
ByDevice(packets, id) == SelectSeq(packets, LAMBDA p : p.deviceId = id)

\* The generator combinations(devices, index, current), as the list it yields
RECURSIVE combinations(_, _, _)
combinations(packets, index, current) ==
    IF index > Len(DeviceIds) THEN <<current>>
    ELSE LET own == ByDevice(packets, DeviceIds[index])
             RECURSIVE From(_)
             From(k) ==
                IF k > Len(own) THEN <<>>
                ELSE combinations(packets, index + 1, Append(current, own[k]))
                     \o From(k + 1)
         IN From(1)

AdjustedTimestamps(group) == [i \in 1..Len(group) |-> group[i].adjustedTimestamp]

\* Compares the last packet of the group with the first
WindowFirstToLast(group) ==
    group[Len(group)].adjustedTimestamp - group[1].adjustedTimestamp
        <= EVENT_WINDOW_MS

\* Accepts every group
WindowAlwaysOpen(group) == TRUE

\* maxT - minT <= EVENT_WINDOW_MS
WithinWindow(group) ==
    SeqMax(AdjustedTimestamps(group)) - SeqMin(AdjustedTimestamps(group))
        <= EVENT_WINDOW_MS

\* Position in groups of the last group within the window
LastAccepted(groups) ==
    IF \E i \in 1..Len(groups) : WithinWindow(groups[i])
    THEN CHOOSE i \in 1..Len(groups) :
            /\ WithinWindow(groups[i])
            /\ \A j \in (i + 1)..Len(groups) : ~WithinWindow(groups[j])
    ELSE 0

\* Position in groups of the first group the loop accepts, 0 when it accepts none
FirstAccepted(groups) ==
    IF \E i \in 1..Len(groups) : WithinWindow(groups[i])
    THEN CHOOSE i \in 1..Len(groups) :
            /\ WithinWindow(groups[i])
            /\ \A j \in 1..(i - 1) : ~WithinWindow(groups[j])
    ELSE 0

\* Lists the receivers in the order their packets arrived
ReceiversInArrivalOrder(group) ==
    [i \in 1..Len(group) |->
        LET k == CHOOSE j \in 1..Len(group) :
                    Cardinality({m \in 1..Len(group) : group[m].pid < group[j].pid}) = i - 1
        IN [deviceId |-> group[k].deviceId,
            x |-> DEVICES[group[k].deviceId].x,
            y |-> DEVICES[group[k].deviceId].y,
            timestamp |-> group[k].adjustedTimestamp,
            loudnessDb |-> group[k].loudnessDb]]

Receivers(group) ==
    [i \in 1..Len(group) |->
        [deviceId |-> group[i].deviceId,
         x |-> DEVICES[group[i].deviceId].x,
         y |-> DEVICES[group[i].deviceId].y,
         timestamp |-> group[i].adjustedTimestamp,
         loudnessDb |-> group[i].loudnessDb]]

\* Every packet of the queue counts as stale
StaleAll(packets, t) == packets

\* packets.filter(p => now - p.receivedAt > EVENT_WINDOW_MS * 10)
Stale(packets, t) ==
    SelectSeq(packets, LAMBDA p : t - p.receivedAt > EVENT_WINDOW_MS * 10)

\* tryResolveEvent(): the event returned (Null for none), the store it leaves,
\* the packets of the accepted group, the packets evicted, and whether the
\* broadcast threw.  timespanMs is counted in thousandths of a millisecond.
tryResolveEvent(packets, events, counter, clients, t, gn) ==
    LET hasAll == \A i \in 1..Len(DeviceIds) :
                      Len(ByDevice(packets, DeviceIds[i])) > 0
        none == [event |-> Null, pendingPackets |-> packets, soundEvents |-> events,
                 eventCounter |-> counter, group |-> <<>>, stale |-> <<>>,
                 threw |-> FALSE]
        \* byDevice[p.deviceId] of a name inherited from Object.prototype is
        \* truthy and has no push: a TypeError while the map is built
        inherited == \E i \in 1..Len(packets) : packets[i].deviceId \in InheritedNames
    IN IF inherited THEN [none EXCEPT !.threw = TRUE]
       ELSE IF ~hasAll THEN none
       ELSE LET groups == combinations(packets, 1, <<>>)
                g == FirstAccepted(groups)
            IN IF g # 0
               THEN LET group == groups[g]
                        timestamps == AdjustedTimestamps(group)
                        minT == SeqMin(timestamps)
                        maxT == SeqMax(timestamps)
                        receivers == Receivers(group)
                        position == localize(receivers, gn)
                        added == addSoundEvent(events, counter,
                                    [id |-> 0, createdAt |-> 0,
                                     position |-> position,
                                     devices |-> [i \in 1..Len(receivers) |->
                                        [deviceId |-> receivers[i].deviceId,
                                         adjustedTimestamp |-> receivers[i].timestamp,
                                         loudnessDb |-> receivers[i].loudnessDb]],
                                     timespanMs |-> ToFixed((maxT - minT) * 1000, 1)],
                                    t)
                    IN [event |-> added.event,
                        pendingPackets |-> removePendingPackets(packets, group),
                        soundEvents |-> added.soundEvents,
                        eventCounter |-> added.eventCounter,
                        group |-> group, stale |-> <<>>,
                        threw |-> broadcastThrows(added.event, clients)]
               ELSE LET stale == Stale(packets, t)
                    IN [none EXCEPT
                          !.pendingPackets = IF Len(stale) > 0
                                             THEN removePendingPackets(packets, stale)
                                             ELSE packets,
                          !.stale = stale]

-----------------------------------------------------------------------------
(* routes/packet.js *)

\* floor(log10(a)) for a >= 1
RECURSIVE Log10(_)
Log10(a) == IF a < 10 THEN 0 ELSE 1 + Log10(a \div 10)

\* toDb(amplitude) in tenths of a dB: 20 * log10(amplitude) to one decimal.
\* Exact on the powers of ten, which are the peak amplitudes used here.
toDb(amplitude) == IF amplitude <= 1 THEN 0 ELSE 200 * Log10(amplitude)

\* Takes the central values of the list as collected, unsorted
MedianUnsorted(values) ==
    LET mid == Len(values) \div 2
    IN IF Len(values) % 2 = 0
       THEN (values[mid] + values[mid + 1]) \div 2
       ELSE values[mid + 1]

\* The median of values; the sum of the two central values is even on the
\* timestamps used here
Median(values) ==
    LET sorted == SortNumbers(values)
        mid == Len(sorted) \div 2            \* Math.floor(values.length / 2)
    IN IF Len(sorted) % 2 = 0
       THEN (sorted[mid] + sorted[mid + 1]) \div 2
       ELSE sorted[mid + 1]

\* The mean of the offsets in place of the median
computeMeanOffsets(rounds, deviceIds) ==
    [id \in {deviceIds[i] : i \in 1..Len(deviceIds)} |->
        LET RECURSIVE Sum(_)
            Sum(r) == IF r = 0 THEN 0 ELSE rounds[r].offsets[id] + Sum(r - 1)
        IN Sum(Len(rounds)) \div Len(rounds)]

computeMedianOffsets(rounds, deviceIds) ==
    [id \in {deviceIds[i] : i \in 1..Len(deviceIds)} |->
        Median([r \in 1..Len(rounds) |-> rounds[r].offsets[id]])]

\* What the loop over the samples does with element s
ElementCheck(s) ==
    IF s.type = "null" THEN "throws"          \* s.deviceId of null: a TypeError
    ELSE IF \/ Falsy(Prop(s, "deviceId"))
            \/ Prop(s, "timestamp").type = "undefined"
            \/ Prop(s, "loudnessDb").type = "undefined" THEN "missing"
    ELSE IF \/ Prop(s, "timestamp").type # "number"
            \/ Prop(s, "loudnessDb").type # "number" THEN "not numbers"
    ELSE IF ~DeviceLookupTruthy(Prop(s, "deviceId")) THEN "unknown device"
    ELSE "ok"

\* Skips the comparison of the deviceIds
validateSamplesAnyIds(body) ==
    IF body.type # "array" THEN [ok |-> FALSE, code |-> 400]
    ELSE IF Len(body.items) = 0 THEN [ok |-> FALSE, code |-> 400]
    ELSE LET items == body.items
             bad == {i \in 1..Len(items) : ElementCheck(items[i]) # "ok"}
         IN IF bad # {}
            THEN LET first == CHOOSE i \in bad : \A j \in bad : i <= j
                 IN [ok |-> FALSE,
                     code |-> IF ElementCheck(items[first]) = "throws"
                              THEN 500 ELSE 400]
            ELSE [ok |-> TRUE,
                  samples |-> [i \in 1..Len(items) |->
                                 [deviceId |-> items[i].deviceId.v,
                                  timestamp |-> items[i].timestamp.v,
                                  loudnessDb |-> items[i].loudnessDb.v]]]

\* validateSamples(req, res): the samples, or the status code of the answer
\* sent instead (400 by the function itself, 500 by server.js's error handler
\* when the function throws)
validateSamples(body) ==
    IF body.type # "array" THEN [ok |-> FALSE, code |-> 400]
    ELSE IF Len(body.items) = 0 THEN [ok |-> FALSE, code |-> 400]
    ELSE LET items == body.items
             bad == {i \in 1..Len(items) : ElementCheck(items[i]) # "ok"}
         IN IF bad # {}
            THEN LET first == CHOOSE i \in bad : \A j \in bad : i <= j
                 IN [ok |-> FALSE,
                     code |-> IF ElementCheck(items[first]) = "throws"
                              THEN 500 ELSE 400]
            ELSE IF Cardinality({items[i].deviceId.v : i \in 1..Len(items)}) > 1
            THEN [ok |-> FALSE, code |-> 400]
            ELSE [ok |-> TRUE,
                  samples |-> [i \in 1..Len(items) |->
                                 [deviceId |-> items[i].deviceId.v,
                                  timestamp |-> items[i].timestamp.v,
                                  loudnessDb |-> items[i].loudnessDb.v]]]

Response(code, mode, status, round, event, offsets) ==
    [code |-> code, mode |-> mode, status |-> status, round |-> round,
     event |-> event, offsets |-> offsets]

ErrorResponse(code) == Response(code, "", "error", 0, Null, EmptyMap)

\* The value of response after a step that answers no request
NoResponse == Response(0, "", "", 0, Null, EmptyMap)

Reported(buffer) == {id \in DOMAIN DEVICES : id \in DOMAIN buffer}

\* Tests the age of the newest entry
SyncExpiredNewest(buffer, t) ==
    /\ DOMAIN buffer # {}
    /\ \E k \in DOMAIN buffer :
          /\ \A j \in DOMAIN buffer : buffer[k].receivedAt >= buffer[j].receivedAt
          /\ t - buffer[k].receivedAt > SYNC_WINDOW_MS

\* The oldest entry of a non-empty buffer is older than the sync window
SyncExpired(buffer, t) ==
    /\ DOMAIN buffer # {}
    /\ \E k \in DOMAIN buffer :
          /\ \A j \in DOMAIN buffer : buffer[k].receivedAt <= buffer[j].receivedAt
          /\ t - buffer[k].receivedAt > SYNC_WINDOW_MS

\* maxTs - syncBufferAfter[id].timestamp for every device
RoundOffsetsFromLatest(buffer) ==
    LET maxTs == SeqMax([i \in 1..Len(DeviceIds) |-> buffer[DeviceIds[i]].timestamp])
    IN [id \in DOMAIN DEVICES |-> maxTs - buffer[id].timestamp]

\* minTs - syncBufferAfter[id].timestamp for every device
RoundOffsets(buffer) ==
    LET minTs == SeqMin([i \in 1..Len(DeviceIds) |-> buffer[DeviceIds[i]].timestamp])
    IN [id \in DOMAIN DEVICES |-> minTs - buffer[id].timestamp]

\* Stops before the last device
RECURSIVE SetClockOffsetsButLast(_, _, _)
SetClockOffsetsButLast(offsets, finalOffsets, i) ==
    IF i >= Len(DeviceIds) THEN offsets
    ELSE SetClockOffsetsButLast(
            setClockOffset(offsets, DeviceIds[i], finalOffsets[DeviceIds[i]]),
            finalOffsets, i + 1)

\* deviceIds.forEach(id => store.setClockOffset(id, finalOffsets[id]))
RECURSIVE SetAllClockOffsets(_, _, _)
SetAllClockOffsets(offsets, finalOffsets, i) ==
    IF i > Len(DeviceIds) THEN offsets
    ELSE SetAllClockOffsets(
            setClockOffset(offsets, DeviceIds[i], finalOffsets[DeviceIds[i]]),
            finalOffsets, i + 1)

\* roundNum <= SYNC_ROUNDS
MoreRoundsNeededInclusive(roundNum) == roundNum <= SYNC_ROUNDS

\* roundNum < SYNC_ROUNDS
MoreRoundsNeeded(roundNum) == roundNum < SYNC_ROUNDS

\* The sync branch of router.post('/') for a detected onset
SyncBranch(deviceId, onset) ==
    LET existing == syncBuffer
        kept == IF SyncExpired(existing, now) THEN EmptyMap ELSE existing
        offsets == IF Len(syncRounds) = 0 /\ DOMAIN existing = {}
                   THEN EmptyMap ELSE clockOffsets
        after == setSyncPacket(kept, deviceId, onset.timestamp, now)
        waiting == DOMAIN DEVICES \ Reported(after)
    IN IF waiting = {}
       THEN LET roundOffsets == RoundOffsets(after)
                rounds == Append(syncRounds, [offsets |-> roundOffsets])
                roundNum == Len(rounds)
            IN IF MoreRoundsNeeded(roundNum)
               THEN /\ syncBuffer' = EmptyMap
                    /\ syncRounds' = rounds
                    /\ clockOffsets' = offsets
                    /\ currentMode' = currentMode
                    /\ sinceModeSet' = sinceModeSet \cup {deviceId}
                    /\ response' = Response(200, "sync", "round_complete", roundNum,
                                            Null, roundOffsets)
                    /\ effects' = <<[what |-> "onSyncRoundComplete", id |-> roundNum,
                                     offsets |-> roundOffsets],
                                    [what |-> "respond", id |-> 0]>>
               ELSE LET finalOffsets == computeMedianOffsets(rounds, DeviceIds)
                    IN /\ syncBuffer' = EmptyMap
                       /\ syncRounds' = <<>>
                       /\ clockOffsets' = SetAllClockOffsets(offsets, finalOffsets, 1)
                       /\ currentMode' = "localize"
                       /\ sinceModeSet' = {}
                       /\ response' = Response(200, "sync", "complete", roundNum,
                                               Null, finalOffsets)
                       /\ effects' = <<[what |-> "onSyncRoundComplete",
                                        id |-> roundNum, offsets |-> roundOffsets],
                                       [what |-> "respond", id |-> 0]>>
       ELSE /\ syncBuffer' = after
            /\ syncRounds' = syncRounds
            /\ clockOffsets' = offsets
            /\ currentMode' = currentMode
            /\ sinceModeSet' = sinceModeSet \cup {deviceId}
            /\ response' = Response(200, "sync", "waiting", Len(syncRounds) + 1,
                                    Null, EmptyMap)
            /\ effects' = <<[what |-> "onSyncPacketReceived", id |-> 0],
                            [what |-> "respond", id |-> 0]>>

\* Broadcasts the event before it is in the log
ResolveEffectsBroadcastFirst(event) ==
    IF event = Null THEN <<[what |-> "respond", id |-> 0]>>
    ELSE <<[what |-> "broadcast", id |-> event.id],
           [what |-> "commit", id |-> event.id],
           [what |-> "respond", id |-> event.id]>>

\* What the request does, in program order, when tryResolveEvent returns
\* event: addSoundEvent, then broadcastEvent, then the answer (res.json, or
\* the error handler's when the broadcast threw); the answer alone for null
ResolveEffects(event) ==
    IF event = Null THEN <<[what |-> "respond", id |-> 0]>>
    ELSE <<[what |-> "commit", id |-> event.id],
           [what |-> "broadcast", id |-> event.id],
           [what |-> "respond", id |-> event.id]>>

\* The accepted triple of a queue, <<>> when tryResolveEvent accepts none
AcceptedGroup(packets) == tryResolveEvent(packets, <<>>, 0, 0, 0, [x |-> 0, y |-> 0, residual |-> 0]).group

\* The localize branch of router.post('/') for a detected onset.  GN: where the
\* solver's iteration may end for an input it has not seen; for an input it
\* has seen it ends where it ended before (localize is a function).
LocalizeBranch(deviceId, onset, GN) ==
    LET packet == [pid |-> nextPid,
                   deviceId |-> deviceId,
                   timestamp |-> onset.timestamp,
                   adjustedTimestamp |-> onset.timestamp
                                           + getClockOffset(clockOffsets, deviceId),
                   loudnessDb |-> toDb(onset.loudnessDb),
                   receivedAt |-> now]
        queue == Append(pendingPackets, packet)
    IN \E group \in {AcceptedGroup(queue)} :
       \E runs \in {group # <<>> /\ RunsIteration(Receivers(group))} :
       \E key \in {IF runs THEN SolverInput(Receivers(group)) ELSE <<>>} :
       \E gn \in IF ~runs THEN {[x |-> 0, y |-> 0, residual |-> 0]}
                 ELSE IF key \in DOMAIN gnMemo THEN {gnMemo[key]} ELSE GN :
       \E r \in {tryResolveEvent(queue, soundEvents, eventCounter, wsClients, now, gn)} :
           /\ gnMemo' = IF runs /\ key \notin DOMAIN gnMemo
                        THEN [k \in DOMAIN gnMemo \cup {key} |->
                                IF k = key THEN gn ELSE gnMemo[k]]
                        ELSE gnMemo
           /\ nextPid' = nextPid + 1
           /\ accepted' = Append(accepted, packet)
           /\ consumedBy' =
                [p \in 1..nextPid |->
                    IF \E i \in 1..Len(group) : group[i].pid = p
                    THEN (IF p < nextPid THEN consumedBy[p] ELSE {}) \cup {r.event.id}
                    ELSE IF p < nextPid THEN consumedBy[p] ELSE {}]
           /\ pendingPackets' = r.pendingPackets
           /\ soundEvents' = r.soundEvents
           /\ eventCounter' = r.eventCounter
           /\ evicted' = evicted \cup {r.stale[i].pid : i \in 1..Len(r.stale)}
           /\ drift' = drift
           /\ detector' = detector
           /\ solver' = solver
           /\ medianCall' = medianCall
           /\ sinceModeSet' = sinceModeSet
           /\ response' =
                IF r.threw THEN ErrorResponse(500)
                ELSE IF r.event = Null
                     THEN Response(200, "localize", "pending", 0, Null, EmptyMap)
                ELSE IF r.event.position # Null
                     THEN Response(200, "localize", "localized", 0, r.event, EmptyMap)
                ELSE Response(200, "localize", "rejected", 0, r.event, EmptyMap)
           /\ effects' = ResolveEffects(r.event)

\* Handles every packet with an onset as in localize mode
PostPacketAlwaysLocalize(body, GN) ==
    LET v == validateSamples(body)
    IN /\ UNCHANGED <<wsClients, now>>
       /\ IF ~v.ok
          THEN /\ response' = ErrorResponse(v.code)
               /\ effects' = <<[what |-> "validateSamples", id |-> 0],
                               [what |-> "respond", id |-> 0]>>
               /\ UNCHANGED <<storeVars, historyVars>>
          ELSE LET deviceId == v.samples[1].deviceId
                   onset == detectClapOnset(v.samples)
               IN IF onset = Null
                  THEN /\ response' = Response(200, currentMode, "no_clap", 0,
                                               Null, EmptyMap)
                       /\ effects' = <<[what |-> "respond", id |-> 0]>>
                       /\ UNCHANGED <<storeVars, historyVars>>
                  ELSE /\ LocalizeBranch(deviceId, onset, GN)
                       /\ UNCHANGED <<currentMode, syncBuffer, syncRounds,
                                      clockOffsets>>

\* POST /packet
PostPacket(body, GN) ==
    LET v == validateSamples(body)
    IN /\ UNCHANGED <<wsClients, now>>
       /\ IF ~v.ok
          THEN /\ response' = ErrorResponse(v.code)
               /\ effects' = <<[what |-> "validateSamples", id |-> 0],
                               [what |-> "respond", id |-> 0]>>
               /\ UNCHANGED <<storeVars, historyVars>>
          ELSE LET deviceId == v.samples[1].deviceId
                   onset == detectClapOnset(v.samples)
               IN IF onset = Null
                  THEN /\ response' = Response(200, currentMode, "no_clap", 0,
                                               Null, EmptyMap)
                       /\ effects' = <<[what |-> "respond", id |-> 0]>>
                       /\ UNCHANGED <<storeVars, historyVars>>
                  ELSE IF currentMode = "sync"
                  THEN /\ SyncBranch(deviceId, onset)
                       /\ UNCHANGED <<pendingPackets, soundEvents, eventCounter,
                                      packetHistory>>
                  ELSE /\ LocalizeBranch(deviceId, onset, GN)
                       /\ UNCHANGED <<currentMode, syncBuffer, syncRounds,
                                      clockOffsets>>

-----------------------------------------------------------------------------
(* routes/mode.js *)

\* Keeps the clock offsets when it sets the mode to sync
PostModeKeepsOffsets(m) ==
    /\ effects' = <<[what |-> "respond", id |-> 0]>>
    /\ UNCHANGED <<syncRounds, pendingPackets, soundEvents, eventCounter,
                   wsClients, now, packetHistory>>
    /\ IF Falsy(m) \/ m.type # "string" \/ m.v \notin VALID_MODES
       THEN /\ response' = ErrorResponse(400)
            /\ UNCHANGED <<currentMode, syncBuffer, clockOffsets, sinceModeSet>>
       ELSE /\ currentMode' = m.v
            /\ sinceModeSet' = {}
            /\ syncBuffer' = EmptyMap
            /\ clockOffsets' = clockOffsets
            /\ response' = Response(200, m.v, "ok", 0, Null, EmptyMap)

\* POST /mode with body {mode: m}; m is a tagged JSON value
PostMode(m) ==
    /\ effects' = <<[what |-> "respond", id |-> 0]>>
    /\ UNCHANGED <<syncRounds, pendingPackets, soundEvents, eventCounter,
                   wsClients, now, packetHistory>>
    /\ IF Falsy(m) \/ m.type # "string" \/ m.v \notin VALID_MODES
       THEN /\ response' = ErrorResponse(400)
            /\ UNCHANGED <<currentMode, syncBuffer, clockOffsets, sinceModeSet>>
       ELSE /\ currentMode' = m.v
            /\ sinceModeSet' = {}
            /\ syncBuffer' = EmptyMap
            /\ clockOffsets' = IF m.v = "sync" THEN EmptyMap ELSE clockOffsets
            /\ response' = Response(200, m.v, "ok", 0, Null, EmptyMap)

-----------------------------------------------------------------------------
(* cli.js *)

\* 'mode localize' sets the mode and leaves the SyncBuffer as it is
CliModeKeepsBuffer(target) ==
    /\ UNCHANGED <<pendingPackets, soundEvents, eventCounter, wsClients, now,
                   packetHistory>>
    /\ response' = NoResponse
    /\ effects' = <<>>
    /\ IF target = "sync"
       THEN /\ currentMode' = "sync"
            /\ syncBuffer' = EmptyMap
            /\ syncRounds' = <<>>
            /\ clockOffsets' = EmptyMap
            /\ sinceModeSet' = {}
       ELSE IF target = "localize"
       THEN /\ currentMode' = "localize"
            /\ sinceModeSet' = {}
            /\ UNCHANGED <<syncBuffer, syncRounds, clockOffsets>>
       ELSE UNCHANGED <<currentMode, syncBuffer, syncRounds, clockOffsets,
                        sinceModeSet>>

\* handleCommand('mode <target>')
CliMode(target) ==
    /\ UNCHANGED <<pendingPackets, soundEvents, eventCounter, wsClients, now,
                   packetHistory>>
    /\ response' = NoResponse
    /\ effects' = <<>>
    /\ IF target = "sync"
       THEN /\ currentMode' = "sync"
            /\ syncBuffer' = EmptyMap
            /\ syncRounds' = <<>>
            /\ clockOffsets' = EmptyMap
            /\ sinceModeSet' = {}
       ELSE IF target = "localize"
       THEN /\ currentMode' = "localize"
            /\ syncBuffer' = EmptyMap
            /\ sinceModeSet' = {}
            /\ UNCHANGED <<syncRounds, clockOffsets>>
       ELSE UNCHANGED <<currentMode, syncBuffer, syncRounds, clockOffsets,
                        sinceModeSet>>

\* handleCommand('reset sync')
CliResetSync ==
    /\ clockOffsets' = EmptyMap
    /\ syncBuffer' = EmptyMap
    /\ response' = NoResponse
    /\ effects' = <<>>
    /\ UNCHANGED <<currentMode, syncRounds, pendingPackets, soundEvents,
                   eventCounter, wsClients, now, historyVars>>

-----------------------------------------------------------------------------
(* Environment: the clock and the WebSocket clients *)

Tick(d) ==
    /\ now' = now + d
    /\ response' = NoResponse
    /\ effects' = <<>>
    /\ UNCHANGED <<storeVars, wsClients, historyVars>>

\* wss.on('connection'): one more open client
WsConnect ==
    /\ wsClients' = wsClients + 1
    /\ response' = NoResponse
    /\ effects' = <<>>
    /\ UNCHANGED <<storeVars, now, historyVars>>

\* A client closes its socket
WsClose ==
    /\ wsClients > 0
    /\ wsClients' = wsClients - 1
    /\ response' = NoResponse
    /\ effects' = <<>>
    /\ UNCHANGED <<storeVars, now, historyVars>>

-----------------------------------------------------------------------------
(* Initial state: the module-level initialisers of store.js *)

InitStore ==
    /\ currentMode = "localize"
    /\ syncBuffer = EmptyMap
    /\ syncRounds = <<>>
    /\ clockOffsets = EmptyMap
    /\ pendingPackets = <<>>
    /\ soundEvents = <<>>
    /\ eventCounter = 0
    /\ wsClients = 0
    /\ now = 0
    /\ gnMemo = EmptyMap
    /\ nextPid = 1
    /\ accepted = <<>>
    /\ consumedBy = <<>>
    /\ evicted = {}
    /\ sinceModeSet = {}
    /\ response = NoResponse
    /\ effects = <<>>

\* Every listener's clock shows true time
NoDrift == [id \in DOMAIN DEVICES |-> 0]

\* detectClapOnset has been given nothing
DetectorIdle == [samples |-> <<>>, delta |-> 0, done |-> TRUE, onset |-> Null,
                 shifted |-> Null, crossing |-> <<>>]

\* computeMedianOffsets has not been called
MedianIdle == [rounds |-> <<>>, done |-> TRUE, result |-> EmptyMap]

\* localize has not been called
SolverIdle == [source |-> <<0, 0>>, receivers |-> <<>>, x |-> 0, y |-> 0,
               iter |-> 0, at |-> "idle", result |-> Null]

Init ==
    /\ InitStore
    /\ drift = NoDrift
    /\ detector = DetectorIdle
    /\ solver = SolverIdle
    /\ medianCall = MedianIdle

-----------------------------------------------------------------------------
(* Request bodies *)

\* Two samples: silence ten ms before a peak at t.  The threshold is crossed a
\* tenth of the way up a peak of 100000, so the onset is at t - 9.
ClapBody(d, t) ==
    ArrayBody(<<Obj(Str(d), Num(t - 10), Num(0)), Obj(Str(d), Num(t), Num(100000))>>)

\* The same shape with a peak below the threshold
QuietBody(d, t) ==
    ArrayBody(<<Obj(Str(d), Num(t - 10), Num(0)), Obj(Str(d), Num(t), Num(100))>>)

NotAnArray == [type |-> "object"]

\* Where the Gauss-Newton iteration may end: inside the room (and off the grid
\* of four decimals), just beyond the x margin, just beyond the y margin
GNOutcomes ==
    {[x |-> 123456, y |-> -549996, residual |-> 14],
     [x |-> 700001, y |-> 0, residual |-> 0],
     [x |-> 0, y |-> -550001, residual |-> 26]}

-----------------------------------------------------------------------------
(* Spec: the correlator under the clock, with mode changes and the console.
   Packets are posted in localize mode; the onsets are at 0 for every device
   and at 201, outside the window, for phone-c.  The clock jumps once, past
   the age at which a pending packet is stale. *)

MaxPackets == 5
TickMs == 2001

DeviceSet == DOMAIN DEVICES

Bodies ==
    {ClapBody("phone-a", 9), ClapBody("phone-b", 9), ClapBody("phone-c", 9),
     ClapBody("phone-c", 210)}

Next ==
    \/ \E b \in Bodies :
          /\ nextPid <= MaxPackets
          /\ currentMode = "localize"
          /\ PostPacket(b, GNOutcomes)
    \/ \E m \in {Str("sync"), Str("localize")} : PostMode(m)
    \/ \E target \in {"sync", "localize"} : CliMode(target)
    \/ CliResetSync
    \/ now = 0 /\ Tick(TickMs)

Spec == Init /\ [][Next]_vars

-----------------------------------------------------------------------------
(* Properties of the pending queue, checked under Spec *)

PendingPids == {pendingPackets[i].pid : i \in 1..Len(pendingPackets)}

\* C1: no packet of the pending queue is part of a committed event's group;
\* a packet queued in localize mode is used by at most one event; a packet
\* that was consumed or evicted is not in the queue (the queue holds each
\* packet once) and an evicted packet is used by no event.
C1_ConsumedOnce ==
    /\ \A p \in PendingPids : consumedBy[p] = {} /\ p \notin evicted
    /\ \A p \in DOMAIN consumedBy : Cardinality(consumedBy[p]) <= 1
    /\ \A p \in evicted : consumedBy[p] = {}
    /\ Cardinality(PendingPids) = Len(pendingPackets)
    /\ \A i \in 1..Len(pendingPackets) :
          pendingPackets[i] = accepted[pendingPackets[i].pid]

\* One packet was evicted, three were consumed by an event and one is still
\* pending, and the mode has been changed since
C1_Witness ==
    /\ \E p \in DOMAIN consumedBy : consumedBy[p] # {}
    /\ evicted # {}
    /\ Len(pendingPackets) > 0
    /\ currentMode = "sync"

\* C6: when packets of phone-a and phone-b are pending, both received more
\* than 10 x EVENT_WINDOW_MS ago, and a phone-c packet arrives with an
\* adjusted timestamp within the window of both, the two are evicted and the
\* step commits no event.
C6_StaleEvictedBeforeGrouping ==
    [][\A i, j \in 1..Len(pendingPackets) :
          ( /\ currentMode = "localize"
            /\ pendingPackets[i].deviceId = "phone-a"
            /\ pendingPackets[j].deviceId = "phone-b"
            /\ now - pendingPackets[i].receivedAt > 10 * EVENT_WINDOW_MS
            /\ now - pendingPackets[j].receivedAt > 10 * EVENT_WINDOW_MS
            /\ nextPid' = nextPid + 1
            /\ accepted'[nextPid].deviceId = "phone-c"
            /\ WithinWindow(<<pendingPackets[i], pendingPackets[j],
                              accepted'[nextPid]>>) )
          => /\ eventCounter' = eventCounter
             /\ {pendingPackets[i].pid, pendingPackets[j].pid} \subseteq evicted'
      ]_vars

\* C7: after a POST /packet in localize mode that produced no event (the
\* answer is pending), no packet of the queue was received more than
\* 10 x EVENT_WINDOW_MS before now.
C7_NoStaleAfterAttempt ==
    (response.mode = "localize" /\ response.status = "pending")
        => \A i \in 1..Len(pendingPackets) :
              now - pendingPackets[i].receivedAt <= 10 * EVENT_WINDOW_MS

-----------------------------------------------------------------------------
(* SpecWindow: the correlator and the solver with WebSocket clients, the clock
   standing still.  Onsets at 0 for every device, 1000 for phone-b, 200 and
   201 for phone-c. *)

MaxWindowPackets == 4
MaxClients == 1

WindowBodies ==
    {ClapBody("phone-a", 9), ClapBody("phone-b", 9), ClapBody("phone-b", 1009),
     ClapBody("phone-c", 9), ClapBody("phone-c", 209), ClapBody("phone-c", 210)}

NextWindow ==
    \/ \E b \in WindowBodies :
          /\ nextPid <= MaxWindowPackets
          /\ PostPacket(b, GNOutcomes)
    \/ wsClients < MaxClients /\ WsConnect
    \/ WsClose

SpecWindow == Init /\ [][NextWindow]_vars

-----------------------------------------------------------------------------
(* Properties of committed events, checked under SpecWindow *)

SetMax(S) == CHOOSE m \in S : \A k \in S : k <= m
SetMin(S) == CHOOSE m \in S : \A k \in S : m <= k

\* The packets an event was built from, by the history of consumption
PacketsOf(id) == {p \in DOMAIN consumedBy : id \in consumedBy[p]}

QueueResolved == Append(pendingPackets, accepted'[nextPid])

\* C5: when a POST /packet completes a triple the correlator accepts and the
\* solver returns null (infeasible, or the iteration ended outside the room),
\* with any number of clients connected, the step commits an event with a
\* null position and answers 200 {mode: localize, status: rejected, event}.
C5_NullPositionRejected ==
    [][(nextPid' = nextPid + 1 /\ AcceptedGroup(QueueResolved) # <<>>)
        => LET receivers == Receivers(AcceptedGroup(QueueResolved))
               null == \/ ~RunsIteration(receivers)
                       \/ OutsideRoom(gnMemo'[SolverInput(receivers)].x,
                                      gnMemo'[SolverInput(receivers)].y)
           IN null =>
                /\ eventCounter' = eventCounter + 1
                /\ Len(soundEvents') > 0
                /\ soundEvents'[Len(soundEvents')].id = eventCounter'
                /\ soundEvents'[Len(soundEvents')].position = Null
                /\ response' = Response(200, "localize", "rejected", 0,
                                        soundEvents'[Len(soundEvents')], EmptyMap)
      ]_vars

\* The step completes the three listeners with one packet each, the adjusted
\* timestamps of phone-a and phone-b 1000 ms apart
C8_Scenario ==
    /\ nextPid' = nextPid + 1
    /\ currentMode = "localize"
    /\ Len(QueueResolved) = 3
    /\ \A i \in 1..Len(DeviceIds) : Len(ByDevice(QueueResolved, DeviceIds[i])) = 1
    /\ Abs(ByDevice(QueueResolved, "phone-a")[1].adjustedTimestamp
            - ByDevice(QueueResolved, "phone-b")[1].adjustedTimestamp) = 1000

\* C8 as stated: in that scenario the answer is rejected, an event with a null
\* position is committed, and no Gauss-Newton iteration runs.
C8_RejectedBySolver ==
    [][C8_Scenario =>
          /\ response'.status = "rejected"
          /\ eventCounter' = eventCounter + 1
          /\ soundEvents'[Len(soundEvents')].position = Null
          /\ gnMemo' = gnMemo
      ]_vars

\* C8 amended: in that scenario the window test refuses the triple, so the
\* answer is pending, no event is committed, and the solver is not reached
\* (no Gauss-Newton iteration runs).
C8_PendingOutsideWindow ==
    [][C8_Scenario =>
          /\ response' = Response(200, "localize", "pending", 0, Null, EmptyMap)
          /\ eventCounter' = eventCounter
          /\ soundEvents' = soundEvents
          /\ AcceptedGroup(QueueResolved) = <<>>
          /\ gnMemo' = gnMemo
      ]_vars

\* The three listeners have one packet each in the queue, phone-a and phone-b
\* 1000 ms apart, and the last request was answered pending
C8_Witness ==
    /\ Len(pendingPackets) = 3
    /\ \A i \in 1..Len(DeviceIds) : Len(ByDevice(pendingPackets, DeviceIds[i])) = 1
    /\ Abs(ByDevice(pendingPackets, "phone-a")[1].adjustedTimestamp
            - ByDevice(pendingPackets, "phone-b")[1].adjustedTimestamp) = 1000
    /\ response.status = "pending"
    /\ eventCounter = 0

-----------------------------------------------------------------------------
(* SpecSolver: onsets at the limits of feasibility.  phone-a and phone-b are
   10 m apart, 29.15 ms of sound; phone-a and phone-c 7.81 m, 22.77 ms. *)

MaxSolverPackets == 4

SolverBodies ==
    {ClapBody("phone-a", 9), ClapBody("phone-a", 38), ClapBody("phone-b", 38),
     ClapBody("phone-b", 39), ClapBody("phone-c", 31), ClapBody("phone-c", 32)}

NextSolver ==
    \E b \in SolverBodies :
        /\ nextPid <= MaxSolverPackets
        /\ PostPacket(b, GNOutcomes)

SpecSolver == Init /\ [][NextSolver]_vars

\* The entry of an event's devices for a listener
DeviceEntry(e, id) ==
    LET i == CHOOSE k \in 1..Len(e.devices) : e.devices[k].deviceId = id
    IN e.devices[i]

\* |c * (t_i - t_0) / 1000| <= distance(receiver_i, receiver_0), both sides
\* squared and counted in square millimetres
RangeDifferenceFeasible(e, id) ==
    LET dt == DeviceEntry(e, id).adjustedTimestamp
                - DeviceEntry(e, DeviceIds[1]).adjustedTimestamp
        dx == DEVICES[id].x - DEVICES[DeviceIds[1]].x
        dy == DEVICES[id].y - DEVICES[DeviceIds[1]].y
    IN (SPEED_OF_SOUND * dt) * (SPEED_OF_SOUND * dt)
            <= (dx * dx + dy * dy) * 1000000

-----------------------------------------------------------------------------
(* SpecSync: sync sessions.  In round r phone-b claps 2 * (r % 3) ms and
   phone-c 2 * (r % 2) ms after phone-a; during the first FreeRounds rounds
   phone-a may instead be AltLateness late, the last of the three.  All onsets are an even number of
   ms apart, so the half-sums of computeMedianOffsets are whole.  The clock
   may jump once past the sync window.  After a session a few packets are
   posted in localize mode. *)

FreeRounds == 1
AltLatenessSteps == 3
AltLateness == 2 * AltLatenessSteps
MaxSyncPackets == 1
SyncTickMs == 5001

Lateness(d, r) ==
    CASE d = "phone-a" -> 0
      [] d = "phone-b" -> 2 * (r % 3)
      [] d = "phone-c" -> 2 * (r % 2)

NextSync ==
    \/ \E d \in DeviceSet, alt \in BOOLEAN :
          /\ currentMode = "sync"
          /\ alt => (d = "phone-a" /\ Len(syncRounds) < FreeRounds)
          /\ PostPacket(ClapBody(d, 9 + (IF alt THEN AltLateness
                                         ELSE Lateness(d, Len(syncRounds) + 1))),
                        GNOutcomes)
    \/ \E d \in DeviceSet :
          /\ currentMode = "localize"
          /\ nextPid <= MaxSyncPackets
          /\ PostPacket(ClapBody(d, 9), GNOutcomes)
    \/ \E m \in {Str("sync"), Str("localize")} : PostMode(m)
    \/ \E target \in {"sync", "localize"} : CliMode(target)
    \/ CliResetSync
    \/ now = 0 /\ Tick(SyncTickMs)

SpecSync == Init /\ [][NextSync]_vars

\* C9: right after the request that completed a sync session (its answer is
\* complete), clockOffsets has an entry for each configured listener and for
\* nothing else.
C9_OffsetsForEveryListener ==
    response.status = "complete" => DOMAIN clockOffsets = DeviceSet

\* A session has just completed and the offsets of the listeners differ
C9_Witness ==
    /\ response.status = "complete"
    /\ currentMode = "localize"
    /\ DOMAIN clockOffsets = DeviceSet
    /\ clockOffsets["phone-b"] # clockOffsets["phone-c"]

\* m is the median of values as computeMedianOffsets defines it: at most half
\* of the values lie below m and at most half above, and m is midway between
\* the nearest values on either side
IsMedian(values, m) ==
    LET idx == 1..Len(values)
        lower == SetMax({values[i] : i \in {j \in idx : values[j] <= m}})
        upper == SetMin({values[i] : i \in {j \in idx : values[j] >= m}})
    IN /\ 2 * Cardinality({i \in idx : values[i] < m}) <= Len(values)
       /\ 2 * Cardinality({i \in idx : values[i] > m}) <= Len(values)
       /\ \E i \in idx : values[i] <= m
       /\ \E i \in idx : values[i] >= m
       /\ 2 * m = lower + upper

-----------------------------------------------------------------------------
(* SpecLog: more events than the log keeps.  The listeners post in turn, the
   first one without a pending packet next.  While fewer than FreeEvents
   events have been committed phone-c may post an onset at the edge of the
   window instead: an infeasible triple, a rejected event. *)

MaxLogEvents == 102
FreeEvents == 2

\* The first configured listener with no pending packet
NextInTurn ==
    LET missing == {i \in 1..Len(DeviceIds) :
                        Len(ByDevice(pendingPackets, DeviceIds[i])) = 0}
    IN DeviceIds[SetMin(missing)]

NextLog ==
    \/ /\ eventCounter < MaxLogEvents
       /\ PostPacket(ClapBody(NextInTurn, 9), GNOutcomes)
    \/ /\ eventCounter < FreeEvents
       /\ NextInTurn = "phone-c"
       /\ PostPacket(ClapBody("phone-c", 209), GNOutcomes)

SpecLog == Init /\ [][NextLog]_vars

\* The ids of the events that consumed packets
CommittedIds == UNION {consumedBy[p] : p \in DOMAIN consumedBy}

\* C3: the events committed so far have the ids 1, 2, ..., eventCounter, each
\* built from three packets of its own (a rejected event takes an id like any
\* other); the log holds the last min(eventCounter, 100) of them in commit
\* order, so never more than 100.
C3_IdsAndRetention ==
    /\ CommittedIds = 1..eventCounter
    /\ \A id \in CommittedIds : Cardinality(PacketsOf(id)) = 3
    /\ Len(soundEvents) <= MaxStoredEvents
    /\ Len(soundEvents) = IF eventCounter < MaxStoredEvents THEN eventCounter
                          ELSE MaxStoredEvents
    /\ \A i \in 1..Len(soundEvents) :
          soundEvents[i].id = eventCounter - Len(soundEvents) + i

\* 102 events committed, the first a rejected one: the log holds events 3..102
C3_Witness ==
    /\ eventCounter = MaxStoredEvents + 2
    /\ Len(soundEvents) = MaxStoredEvents
    /\ soundEvents[1].id = 3
    /\ \A p \in PacketsOf(1) : accepted[p].adjustedTimestamp \in {0, 200}
    /\ \E p \in PacketsOf(1) : accepted[p].adjustedTimestamp = 200

-----------------------------------------------------------------------------
(* One clap per listener, checked under SpecSync *)

\* C11: in sync mode, with no round collected yet, the request with which
\* every listener has reported one detected clap commits a clock offset for
\* every listener, sets the mode to localize and is answered complete with
\* the offsets.
C11_OneClapEachCompletes ==
    [][(/\ currentMode = "sync"
        /\ syncRounds = <<>>
        /\ response'.mode = "sync"
        /\ effects'[1].what = "onSyncRoundComplete")
          => /\ response'.status = "complete"
             /\ response'.offsets = clockOffsets'
             /\ DOMAIN clockOffsets' = DeviceSet
             /\ currentMode' = "localize"
      ]_vars

-----------------------------------------------------------------------------
(* SpecDrift: sync sessions and localization with drifting listener clocks.
   A listener's clock is drift[id] ms ahead of true time; the drifts are
   chosen at the start and stay.  The clap of sync round r is heard by every
   listener at RoundTime(r), so listener id reports RoundTime(r) + drift[id];
   the listeners report in the configured order.
   Once offsets are committed, each listener posts one clap, heard at one of
   the times of ClapTimes, in localize mode. *)

\* req.body.mode: the valid modes, another string, a number, no mode
ModeBodies == {Str("sync"), Str("localize"), Str("idle"), Num(1), Undefined}

DriftOf(a, b, c) ==
    [id \in DOMAIN DEVICES |->
        CASE id = "phone-a" -> a [] id = "phone-b" -> b [] id = "phone-c" -> c]

\* const drifts = { 'phone-a': 15, 'phone-b': -8, 'phone-c': 0 }
TestDrifts == DriftOf(15, -8, 0)

DriftVectors == {TestDrifts, NoDrift, DriftOf(-4, 6, 6)}

RoundTime(r) == 100 + 7 * (r % 2)

ClapTimes == {200, 240}

InitDrift ==
    /\ InitStore
    /\ drift \in DriftVectors
    /\ detector = DetectorIdle
    /\ solver = SolverIdle
    /\ medianCall = MedianIdle

NextDrift ==
    \/ \E d \in DeviceSet :
          /\ currentMode = "sync"
          /\ d \notin DOMAIN syncBuffer
          /\ \A i \in 1..Len(DeviceIds) :
                DeviceIds[i] = d => \A j \in 1..(i - 1) : DeviceIds[j] \in DOMAIN syncBuffer
          /\ PostPacket(ClapBody(d, 9 + RoundTime(Len(syncRounds) + 1) + drift[d]),
                        GNOutcomes)
    \/ \E d \in DeviceSet, t \in ClapTimes :
          /\ currentMode = "localize"
          /\ DOMAIN clockOffsets = DeviceSet
          /\ \A i \in 1..Len(accepted) : accepted[i].deviceId # d
          /\ PostPacket(ClapBody(d, 9 + t + drift[d]), GNOutcomes)
    \/ \E m \in ModeBodies : PostMode(m)

SpecDrift == InitDrift /\ [][NextDrift]_vars

\* C12: with drifts of +15 ms for phone-a, -8 ms for phone-b and 0 for
\* phone-c, a session in which every listener's onset of a round is the
\* round's time plus its drift completes on the tenth round and commits the
\* offsets -23 for phone-a, 0 for phone-b (the earliest) and -8 for phone-c;
\* the answer carries the same offsets.
C12_TestDriftOffsets ==
    (drift = TestDrifts /\ response.status = "complete") =>
        /\ response.round = 10
        /\ DOMAIN clockOffsets = DeviceSet
        /\ \A id \in DeviceSet :
              /\ clockOffsets[id] = DriftOf(-23, 0, -8)[id]
              /\ response.offsets[id] = clockOffsets[id]

\* A session under the test drifts has just completed
C12_Witness ==
    /\ drift = TestDrifts
    /\ response.status = "complete"
    /\ currentMode = "localize"
    /\ syncRounds = <<>>
    /\ DOMAIN clockOffsets = DeviceSet
    /\ clockOffsets["phone-a"] = -23

\* The true time of the onset the packet reports: its timestamp on the
\* listener's clock less the listener's drift
TrueOnset(p) == p.timestamp - drift[p.deviceId]

\* C13: after sync sessions in which every onset was the round's time plus
\* the listener's drift, any two packets queued in localize mode have adjusted
\* timestamps that differ by exactly the difference of their true onset
\* times, whatever the drifts (so onsets at the same true time get equal
\* adjusted timestamps).
C13_SyncCancelsDrift ==
    \A p, q \in 1..Len(accepted) :
        accepted[p].adjustedTimestamp - accepted[q].adjustedTimestamp
            = TrueOnset(accepted[p]) - TrueOnset(accepted[q])

\* Under the test drifts phone-a and phone-b, 23 ms apart on their clocks,
\* reported claps 40 ms apart, and phone-c one at the time of phone-a's
C13_Witness ==
    /\ drift = TestDrifts
    /\ Len(accepted) = 3
    /\ accepted[1].deviceId = "phone-a"
    /\ accepted[2].deviceId = "phone-b"
    /\ accepted[3].deviceId = "phone-c"
    /\ accepted[1].timestamp = 215
    /\ accepted[2].timestamp = 232
    /\ accepted[2].adjustedTimestamp - accepted[1].adjustedTimestamp = 40
    /\ accepted[3].adjustedTimestamp = accepted[1].adjustedTimestamp

-----------------------------------------------------------------------------
(* Arrival order, checked under SpecSolver *)

\* Three packets have been queued, one from each listener
OnePacketPerListener ==
    /\ Len(accepted) = 3
    /\ \A id \in DeviceSet : \E i \in 1..3 : accepted[i].deviceId = id

Permutations3 ==
    {o \in [1..3 -> 1..3] : \A i, j \in 1..3 : i # j => o[i] # o[j]}

\* The event tryResolveEvent returns for the last of three packets that
\* arrive, at an empty queue, in the given order; the iteration ends where
\* it ended before for the same solver input
ResolveArrivals(packets, order) ==
    LET zero == [x |-> 0, y |-> 0, residual |-> 0]
        arrival(k) == [packets[order[k]] EXCEPT !.pid = k]
        q1 == tryResolveEvent(<<arrival(1)>>, <<>>, 0, 0, now, zero).pendingPackets
        q2 == tryResolveEvent(Append(q1, arrival(2)), <<>>, 0, 0, now, zero).pendingPackets
        q3 == Append(q2, arrival(3))
        group == AcceptedGroup(q3)
        key == IF group # <<>> THEN SolverInput(Receivers(group)) ELSE <<>>
        gn == IF key \in DOMAIN gnMemo THEN gnMemo[key] ELSE zero
    IN [event |-> tryResolveEvent(q3, <<>>, 0, 0, now, gn).event, input |-> key]

\* C14: when one packet per listener has arrived at an empty queue and the
\* adjusted timestamps span at most EVENT_WINDOW_MS, an event has been
\* committed, and each of the six arrival orders of the three packets yields
\* an event with that event's devices list, timespan and position, from the
\* same solver input.
C14_OrderInvariant ==
    (/\ OnePacketPerListener
     /\ SeqMax(AdjustedTimestamps(accepted)) - SeqMin(AdjustedTimestamps(accepted))
            <= EVENT_WINDOW_MS)
      => /\ Len(soundEvents) = 1
         /\ pendingPackets = <<>>
         /\ \A order \in Permutations3 :
               LET r == ResolveArrivals(accepted, order)
               IN /\ r.event # Null
                  /\ r.event.devices = soundEvents[1].devices
                  /\ r.event.timespanMs = soundEvents[1].timespanMs
                  /\ r.event.position = soundEvents[1].position
                  /\ r.input = ResolveArrivals(accepted, [i \in 1..3 |-> i]).input
                  /\ r.event.devices[1].adjustedTimestamp + r.input[1]
                        = r.event.devices[2].adjustedTimestamp

\* phone-c arrived first and phone-a last with three different onsets; the
\* event lists phone-a first and has a position
C14_Witness ==
    /\ OnePacketPerListener
    /\ accepted[1].deviceId = "phone-c"
    /\ accepted[3].deviceId = "phone-a"
    /\ accepted[1].adjustedTimestamp # accepted[2].adjustedTimestamp
    /\ accepted[1].adjustedTimestamp # accepted[3].adjustedTimestamp
    /\ accepted[2].adjustedTimestamp # accepted[3].adjustedTimestamp
    /\ Len(soundEvents) = 1
    /\ soundEvents[1].devices[1].deviceId = "phone-a"
    /\ soundEvents[1].position # Null

-----------------------------------------------------------------------------
(* SpecDetector: detectClapOnset on a packet and on the same packet later.
   The packets are the sequences of up to MaxSamples samples with timestamps
   on a grid of SampleStep ms, in any order and with ties, and loudness from
   silence to twice the threshold; on them the interpolated crossing is a
   whole number of ms. *)

MaxSamples == 3
SampleStep == 6

SampleTimes == {0, SampleStep, 2 * SampleStep}

Loudnesses == {0, CLAP_THRESHOLD \div 2, CLAP_THRESHOLD, 2 * CLAP_THRESHOLD}

Deltas == {-7, 5, 1000}

DetectorSamples ==
    [deviceId : {"phone-a"}, timestamp : SampleTimes, loudnessDb : Loudnesses]

DetectorPackets ==
    UNION {[1..n -> DetectorSamples] : n \in 1..MaxSamples}

\* The packet with every sample timestamp increased by delta
Shifted(samples, delta) ==
    [i \in 1..Len(samples) |->
        [samples[i] EXCEPT !.timestamp = samples[i].timestamp + delta]]

InitDetector ==
    /\ InitStore
    /\ drift = NoDrift
    /\ detector \in [samples : DetectorPackets, delta : Deltas, done : {FALSE},
                     onset : {Null}, shifted : {Null}, crossing : {<<>>}]
    /\ solver = SolverIdle
    /\ medianCall = MedianIdle

\* detectClapOnset(samples) and detectClapOnset(samples shifted by delta)
Detect ==
    /\ ~detector.done
    /\ detector' = [detector EXCEPT
                      !.done = TRUE,
                      !.onset = detectClapOnset(detector.samples),
                      !.shifted = detectClapOnset(Shifted(detector.samples,
                                                          detector.delta)),
                      !.crossing = CrossingPair(detector.samples)]
    /\ response' = NoResponse
    /\ effects' = <<>>
    /\ UNCHANGED <<storeVars, wsClients, now, gnMemo, nextPid, accepted,
                   consumedBy, evicted, drift, solver, medianCall,
                   sinceModeSet>>

NextDetector == Detect

SpecDetector == InitDetector /\ [][NextDetector]_vars

\* C15: the detector returns null on a packet exactly when it returns null on
\* the packet with every sample timestamp increased by delta; when it returns
\* an onset with timestamp t, it returns on the shifted packet an onset with
\* timestamp exactly t + delta and the same peak loudness.
C15_OnsetShiftEquivariant ==
    (detector.done /\ detector.samples # <<>>) =>
        /\ detector.onset = Null <=> detector.shifted = Null
        /\ detector.onset # Null =>
              /\ detector.shifted.timestamp = detector.onset.timestamp + detector.delta
              /\ detector.shifted.loudnessDb = detector.onset.loudnessDb

\* The samples arrived out of order, the crossing lies a third of the way
\* between two of them, and the packet was shifted back in time
C15_Witness ==
    /\ detector.done
    /\ Len(detector.samples) = 3
    /\ detector.samples[1].timestamp > detector.samples[2].timestamp
    /\ detector.delta = -7
    /\ detector.onset # Null
    /\ detector.onset.timestamp = 2
    /\ detector.shifted.timestamp = -5
    /\ detector.onset.loudnessDb = 2 * CLAP_THRESHOLD

-----------------------------------------------------------------------------
(* SpecRequests: well-formed and malformed requests in both modes.  Claps
   are posted by a listener that has none pending (localize mode) or has not
   yet reported in the first sync round (sync mode); among them come packets too quiet
   to hold a clap, bodies that break one of the rules of validateSamples, a
   body whose array holds null, a packet from a device named like a property
   every object inherits, and POST /mode with a valid or a missing mode.  The clock may jump once past the sync window. *)

MaxRequestPackets == 4

\* { deviceId, timestamp } and the like; an absent property reads as undefined
QuietBodies == {QuietBody(d, 9) : d \in DeviceSet}

MalformedBodies ==
    {NotAnArray,
     ArrayBody(<<>>),
     ArrayBody(<<Obj(Str("phone-a"), Undefined, Num(100000))>>),
     ArrayBody(<<Obj(Undefined, Num(9), Num(100000))>>),
     ArrayBody(<<Obj(Str("phone-a"), Str("9"), Num(100000))>>),
     ArrayBody(<<Obj(Str("phone-a"), Num(9), Null)>>),
     ArrayBody(<<Obj(Str("phone-z"), Num(-1), Num(0)),
                 Obj(Str("phone-z"), Num(9), Num(100000))>>),
     ArrayBody(<<Obj(Str("phone-a"), Num(-1), Num(0)),
                 Obj(Str("phone-b"), Num(9), Num(100000))>>),
     ArrayBody(<<Num(9)>>)}

NullElementBody ==
    ArrayBody(<<Obj(Str("phone-a"), Num(-1), Num(0)), Null>>)

InheritedNameBody == ClapBody("constructor", 9)

RequestBodies ==
    {ClapBody(d, 9) : d \in DeviceSet} \cup QuietBodies \cup MalformedBodies
        \cup {NullElementBody, InheritedNameBody}

\* The first name of the sequence that is not in the set, "" when all are
FirstNotIn(names, S) ==
    IF \A i \in 1..Len(names) : names[i] \in S THEN ""
    ELSE names[CHOOSE i \in 1..Len(names) :
                  /\ names[i] \notin S
                  /\ \A j \in 1..(i - 1) : names[j] \in S]

\* The packet may be posted now: the listeners take turns in the configured
\* order, and the device with the inherited name posts when it has no packet
\* pending (localize mode) or has not reported (sync mode)
InTurn(body) ==
    IF body \notin {ClapBody(d, 9) : d \in DeviceSet} \cup {InheritedNameBody}
    THEN TRUE
    ELSE LET id == body.items[1].deviceId.v
             queued == {pendingPackets[i].deviceId : i \in 1..Len(pendingPackets)}
         IN IF currentMode = "localize"
            THEN /\ nextPid <= MaxRequestPackets
                 /\ id \notin queued
                 /\ id \in DOMAIN DEVICES => id = FirstNotIn(DeviceIds, queued)
            ELSE /\ syncRounds = <<>>
                 /\ id \notin DOMAIN syncBuffer
                 /\ id \in DOMAIN DEVICES => id = FirstNotIn(DeviceIds, DOMAIN syncBuffer)

NextRequests ==
    \/ \E body \in RequestBodies : InTurn(body) /\ PostPacket(body, GNOutcomes)
    \/ \E m \in {Str("sync"), Str("localize"), Undefined} : PostMode(m)
    \/ now = 0 /\ Tick(SyncTickMs)

SpecRequests == Init /\ [][NextRequests]_vars

\* The answer came from validateSamples: a 400 it sent, or the error handler's
\* 500 for what it threw
AnsweredByValidation ==
    /\ Len(effects) = 2
    /\ effects[1].what = "validateSamples"

C17_InvalidAnswered400 ==
    [][\A body \in MalformedBodies \cup {NullElementBody, InheritedNameBody} :
          PostPacket(body, GNOutcomes)
            => /\ response'.code = 400
               /\ response'.status = "error"
      ]_vars


\* C18: a POST /packet with a valid packet that holds no clap (every sample
\* far below the threshold), on which the detector returns null,
\* is answered no_clap in the current mode, sync or localize, and leaves the
\* sync buffer (stale entries too), the sync rounds, the clock offsets, the
\* pending queue, the event log and the mode as they were.
C18_NoClapLeavesStore ==
    [][\A body \in QuietBodies :
          PostPacket(body, GNOutcomes)
            => /\ UNCHANGED storeVars
               /\ response' = Response(200, currentMode, "no_clap", 0, Null, EmptyMap)
      ]_vars

\* A quiet packet has just been answered no_clap in sync mode while the sync
\* buffer held an entry older than the sync window and a packet was pending
C18_Witness ==
    /\ response.status = "no_clap"
    /\ response.mode = "sync"
    /\ currentMode = "sync"
    /\ SyncExpired(syncBuffer, now)
    /\ pendingPackets # <<>>

-----------------------------------------------------------------------------
(* POST /mode, checked under SpecDrift *)

\* C19: POST /mode with mode sync sets the mode to sync and empties the clock
\* offsets and the sync buffer; with mode localize it sets the mode to
\* localize, empties the sync buffer and leaves the clock offsets; with any
\* other mode, or none, it answers 400 and changes nothing of the store.  In
\* every case the pending queue and the event log stay as they were.  The
\* mode is localize at the start and one of sync and localize ever after.
C19_PostModeEffect ==
    /\ currentMode = "localize"
    /\ [][/\ currentMode' \in VALID_MODES
          /\ \A m \in ModeBodies :
               PostMode(m) =>
                 /\ pendingPackets' = pendingPackets
                 /\ soundEvents' = soundEvents
                 /\ eventCounter' = eventCounter
                 /\ IF m = Str("sync")
                    THEN /\ currentMode' = "sync"
                         /\ clockOffsets' = EmptyMap
                         /\ syncBuffer' = EmptyMap
                         /\ response'.code = 200
                    ELSE IF m = Str("localize")
                    THEN /\ currentMode' = "localize"
                         /\ clockOffsets' = clockOffsets
                         /\ syncBuffer' = EmptyMap
                         /\ response'.code = 200
                    ELSE /\ response'.code = 400
                         /\ UNCHANGED storeVars
         ]_vars

\* The mode has just been set to sync by POST /mode, which emptied the clock
\* offsets a completed session had committed (an event was localized with
\* them); sync rounds collected before are still there
C19_Witness ==
    /\ response.status = "ok"
    /\ response.mode = "sync"
    /\ currentMode = "sync"
    /\ clockOffsets = EmptyMap
    /\ syncBuffer = EmptyMap
    /\ soundEvents # <<>>
    /\ drift = TestDrifts
    /\ soundEvents[1].devices[1].adjustedTimestamp
          # accepted[1].timestamp

-----------------------------------------------------------------------------
(* The order of commit, broadcast and answer, checked under SpecWindow *)

\* Position in effects of the first entry with this label and event id, 0 when
\* there is none
EffectAt(log, what, id) ==
    IF \E i \in 1..Len(log) : log[i] = [what |-> what, id |-> id]
    THEN CHOOSE i \in 1..Len(log) :
            /\ log[i] = [what |-> what, id |-> id]
            /\ \A j \in 1..(i - 1) : log[j] # [what |-> what, id |-> id]
    ELSE 0

-----------------------------------------------------------------------------
(* SpecIteration: one call of localize, pass by pass.  The receivers are the
   configured listeners and the timestamps the travel times of a sound from
   a source on the whole-metre grid x in -4..MaxSourceX, y in 3..MaxSourceY,
   or from (1, 9): the scenarios of test.js are the sources (5, 5) and
   (1, 9). *)

MaxSourceX == 5
MaxSourceY == 5

Sources == {<<x, y>> : x \in -4..MaxSourceX, y \in 3..MaxSourceY} \cup {<<1, 9>>}

\* test.js: timestamp = t1 + dist / SPEED_OF_SOUND * 1000 (+ the drift that
\* the offsets take away again), with t1 = 0 and in microseconds
ArrivalsFrom(src) ==
    [i \in 1..3 |->
        LET dev == DEVICES[DeviceIds[i]]
        IN [deviceId |-> DeviceIds[i],
            x |-> 1000 * dev.x,
            y |-> 1000 * dev.y,
            timestamp |->
                RoundDiv(1000 * dist(1000 * src[1], 1000 * src[2],
                                     1000 * dev.x, 1000 * dev.y),
                         SPEED_OF_SOUND)]]

InitIteration ==
    /\ InitStore
    /\ drift = NoDrift
    /\ detector = DetectorIdle
    /\ medianCall = MedianIdle
    /\ solver \in {[source |-> s, receivers |-> ArrivalsFrom(s), x |-> 0, y |-> 0,
                    iter |-> 0, at |-> "called", result |-> Null] : s \in Sources}

\* The part of every step of localize that is not the solver's
SolverFrame ==
    /\ response' = NoResponse
    /\ effects' = <<>>
    /\ UNCHANGED <<storeVars, wsClients, now, gnMemo, nextPid, accepted,
                   consumedBy, evicted, drift, detector, medianCall,
                   sinceModeSet>>

\* localize up to the loop: the feasibility gate and the initial estimate
SolverEnter ==
    /\ solver.at = "called"
    /\ IF \/ Len(solver.receivers) < 3
          \/ ExceedsPhysicalLimit(solver.receivers[1], solver.receivers[2])
          \/ ExceedsPhysicalLimit(solver.receivers[1], solver.receivers[3])
       THEN solver' = [solver EXCEPT !.at = "done"]
       ELSE solver' = [solver EXCEPT !.at = "loop",
                                     !.x = Centroid(solver.receivers).x,
                                     !.y = Centroid(solver.receivers).y]
    /\ SolverFrame

\* One pass of the loop
SolverIterate ==
    /\ solver.at = "loop"
    /\ solver.iter < MAX_ITERATIONS
    /\ \E step \in {GaussNewtonStep([x |-> solver.x, y |-> solver.y],
                                    solver.receivers)} :
          solver' = [solver EXCEPT !.x = step.x,
                                   !.y = step.y,
                                   !.iter = solver.iter + 1,
                                   !.at = IF step.stop THEN "left" ELSE "loop"]
    /\ SolverFrame

\* After the loop: the room bounds and the returned value
SolverReturn ==
    /\ \/ solver.at = "left"
       \/ solver.at = "loop" /\ solver.iter = MAX_ITERATIONS
    /\ solver' = [solver EXCEPT
                    !.at = "done",
                    !.result = SolverResult([x |-> solver.x, y |-> solver.y],
                                            solver.receivers)]
    /\ SolverFrame

NextIteration == SolverEnter \/ SolverIterate \/ SolverReturn

SpecIteration == InitIteration /\ [][NextIteration]_vars

\* C21 as stated: once localize has returned for the arrival times of a
\* source at (1, 9), the position is not null and within 0.2 m of (1, 9).
C21_NearCornerLocalized ==
    (solver.at = "done" /\ solver.source = <<1, 9>>)
      => /\ solver.result # Null
         /\ \E ex \in {(solver.result.x - 1 * PosUnit) \div 100},
               ey \in {(solver.result.y - 9 * PosUnit) \div 100} :
               ex * ex + ey * ey <= 200 * 200

\* C22: once localize has returned for the arrival times of a source at
\* (5, 5), the position is not null and within 0.1 m of (5, 5) and the
\* residual is below 0.01 m.
C22_CenterSourceConverges ==
    (solver.at = "done" /\ solver.source = <<5, 5>>)
      => /\ solver.result # Null
         /\ \E ex \in {(solver.result.x - 5 * PosUnit) \div 100},
               ey \in {(solver.result.y - 5 * PosUnit) \div 100} :
               ex * ex + ey * ey <= 100 * 100
         /\ solver.result.residual < 100000

\* localize has returned for the source (5, 5), after more than one pass of
\* the loop that started at the centroid
C22_Witness ==
    /\ solver.at = "done"
    /\ solver.source = <<5, 5>>
    /\ solver.iter > 1
    /\ solver.result # Null

\* A step that sets the mode: POST /mode with a valid mode, the console's
\* mode command, or the switch at the end of a sync session
ModeIsSet ==
    \/ currentMode' # currentMode
    \/ \E m \in {Str("sync"), Str("localize")} : PostMode(m)
    \/ \E target \in {"sync", "localize"} : CliMode(target)

\* C23: every step that sets the mode leaves the SyncBuffer empty; the
\* SyncBuffer is empty whenever the mode is localize; and every onset in the
\* SyncBuffer was received after the mode was last set, so that a round never
\* combines onsets from both sides of a mode change.
C23_ModeChangeEmptiesBuffer ==
    /\ [](currentMode = "localize" => syncBuffer = EmptyMap)
    /\ [](DOMAIN syncBuffer \subseteq sinceModeSet)
    /\ [][ModeIsSet => syncBuffer' = EmptyMap]_vars

\* The third onset of the last round has just switched the mode to localize:
\* the two onsets that waited in the buffer are gone
C23_Witness ==
    /\ response.status = "complete"
    /\ currentMode = "localize"
    /\ syncBuffer = EmptyMap
    /\ sinceModeSet = {}

\* C24 as stated: every step that switches the mode to sync, by POST /mode
\* or by the console, leaves no collected round, so that a session's medians
\* are taken over rounds completed after the switch only.
C24_SyncStartsWithZeroRounds ==
    [][(PostMode(Str("sync")) \/ CliMode("sync")) => syncRounds' = <<>>]_vars

-----------------------------------------------------------------------------
(* SpecStale: a sync session under a clock that advances in steps of
   StaleTickMs, a little over half the sync window, so that the onsets of a
   round are received at different times, within the window or not. *)

StaleTickMs == 2501
MaxStaleTicks == 3
MaxStaleRounds == 2

NextStale ==
    \/ currentMode # "sync" /\ PostMode(Str("sync"))
    \/ \E d \in DeviceSet :
          /\ currentMode = "sync"
          /\ Len(syncRounds) < MaxStaleRounds
          /\ PostPacket(ClapBody(d, 9), GNOutcomes)
    \/ now < MaxStaleTicks * StaleTickMs /\ Tick(StaleTickMs)

SpecStale == Init /\ [][NextStale]_vars

\* C25: when an onset is accepted in sync mode while some entry of the
\* SyncBuffer was received more than SYNC_WINDOW_MS ago, the buffer afterwards
\* holds the new entry only; and when an onset completes a round, every entry
\* of the round was received at most SYNC_WINDOW_MS before.
C25_StaleRoundDiscarded ==
    [][\A d \in DeviceSet :
          (currentMode = "sync" /\ PostPacket(ClapBody(d, 9), GNOutcomes)) =>
              /\ (\E k \in DOMAIN syncBuffer :
                      now - syncBuffer[k].receivedAt > SYNC_WINDOW_MS)
                   => /\ DOMAIN syncBuffer' = {d}
                      /\ syncBuffer'[d].receivedAt = now
                      /\ response'.status = "waiting"
              /\ response'.status \in {"round_complete", "complete"}
                   => /\ DOMAIN syncBuffer \cup {d} = DeviceSet
                      /\ \A k \in DOMAIN syncBuffer :
                            now - syncBuffer[k].receivedAt <= SYNC_WINDOW_MS]_vars

\* Two listeners reported, then the third after the window had passed: the
\* buffer holds the third alone and no round was completed
C25_Witness ==
    /\ currentMode = "sync"
    /\ sinceModeSet = DeviceSet
    /\ syncRounds = <<>>
    /\ response.status = "waiting"
    /\ \E d \in DeviceSet :
          /\ DOMAIN syncBuffer = {d}
          /\ syncBuffer[d].receivedAt > SYNC_WINDOW_MS

\* Some choice of one pending packet per configured listener has adjusted
\* timestamps spanning at most EVENT_WINDOW_MS
ResolvableGroupPending ==
    \E i, j, k \in 1..Len(pendingPackets) :
        /\ pendingPackets[i].deviceId = DeviceIds[1]
        /\ pendingPackets[j].deviceId = DeviceIds[2]
        /\ pendingPackets[k].deviceId = DeviceIds[3]
        /\ \A p, q \in {i, j, k} :
              pendingPackets[p].adjustedTimestamp - pendingPackets[q].adjustedTimestamp
                  <= EVENT_WINDOW_MS

\* C26 as stated: in every reachable state the pending queue holds no group
\* of one packet per configured listener within the window.
C26_NoResolvableGroupLeft == ~ResolvableGroupPending

-----------------------------------------------------------------------------
(* SpecResync: localization before, between and after sync sessions, with
   drifting listener clocks as in SpecDrift.  One clap is heard by every
   listener at 200 ms; each listener posts it once, in the configured order,
   whenever the mode is localize.  The mode is set to sync by POST /mode and
   the offsets are cleared from the console. *)

NextResync ==
    \/ \E d \in DeviceSet :
          /\ currentMode = "sync"
          /\ d = FirstNotIn(DeviceIds, DOMAIN syncBuffer)
          /\ PostPacket(ClapBody(d, 9 + RoundTime(Len(syncRounds) + 1) + drift[d]),
                        GNOutcomes)
    \/ \E d \in DeviceSet :
          /\ currentMode = "localize"
          /\ d = FirstNotIn(DeviceIds,
                            {accepted[i].deviceId : i \in 1..Len(accepted)})
          /\ PostPacket(ClapBody(d, 9 + 200 + drift[d]), GNOutcomes)
    \/ currentMode = "localize" /\ PostMode(Str("sync"))
    \/ currentMode = "localize" /\ clockOffsets # EmptyMap /\ CliResetSync

SpecResync == InitDrift /\ [][NextResync]_vars

\* C27 as stated: when an event is committed, each adjusted timestamp of its
\* group is the packet's raw timestamp plus the listener's offset in the
\* ClockOffsets in force at the commit.
C27_GroupUnderOneOffsetsMap ==
    [][eventCounter' > eventCounter =>
          \A p \in 1..Len(accepted') :
              eventCounter' \in consumedBy'[p] =>
                  accepted'[p].adjustedTimestamp
                      = accepted'[p].timestamp
                          + getClockOffset(clockOffsets', accepted'[p].deviceId)]_vars

\* <<a1, b1, c1>> is at or before <<a2, b2, c2>> in lexicographic order
LexAtOrBefore(a1, b1, c1, a2, b2, c2) ==
    \/ a1 < a2
    \/ a1 = a2 /\ b1 < b2
    \/ a1 = a2 /\ b1 = b2 /\ c1 <= c2

\* The identity of the packet of listener id among the packets with
\* identities in S
PidOf(S, id) == CHOOSE p \in S : accepted'[p].deviceId = id

\* C28: when a step commits an event, its group is, among the triples of one
\* queued packet per configured listener whose adjusted timestamps span at
\* most EVENT_WINDOW_MS, the first in lexicographic order, the listeners
\* taken in the configured order and the packets of a listener in the order
\* of insertion.
C28_FirstTripleInOrder ==
    [][eventCounter' > eventCounter =>
          LET group == {p \in 1..Len(accepted') : eventCounter' \in consumedBy'[p]}
              queue == group \cup {pendingPackets'[i].pid : i \in 1..Len(pendingPackets')}
              of(id) == {p \in queue : accepted'[p].deviceId = id}
          IN /\ \A i \in 1..Len(DeviceIds) :
                    Cardinality({p \in group : accepted'[p].deviceId = DeviceIds[i]}) = 1
             /\ \A a \in of(DeviceIds[1]), b \in of(DeviceIds[2]), c \in of(DeviceIds[3]) :
                    (\A p, q \in {a, b, c} :
                        accepted'[p].adjustedTimestamp - accepted'[q].adjustedTimestamp
                            <= EVENT_WINDOW_MS)
                      => LexAtOrBefore(PidOf(group, DeviceIds[1]),
                                       PidOf(group, DeviceIds[2]),
                                       PidOf(group, DeviceIds[3]), a, b, c)]_vars

\* Two packets of phone-a and two of phone-b were pending, all with the same
\* onset, when phone-c reported it: the event took the earlier packet of each
\* and the later ones stay pending
C28_Witness ==
    /\ Len(accepted) = 5
    /\ accepted[1].deviceId = "phone-a" /\ accepted[2].deviceId = "phone-b"
    /\ accepted[3].deviceId = "phone-a" /\ accepted[4].deviceId = "phone-b"
    /\ accepted[5].deviceId = "phone-c"
    /\ \A p \in 1..5 : accepted[p].adjustedTimestamp = 0
    /\ consumedBy[1] = {1} /\ consumedBy[2] = {1} /\ consumedBy[5] = {1}
    /\ Len(pendingPackets) = 2
    /\ pendingPackets[1].pid = 3 /\ pendingPackets[2].pid = 4

\* The identities of the packets of a queue, in queue order
Pids(packets) == [i \in 1..Len(packets) |-> packets[i].pid]

\* C29: a request that queues a packet and commits an event removes from the
\* queue the three packets of the event's group and nothing else, the others
\* keeping their order, whether the event has a position or not; a request
\* that queues a packet and commits no event removes only packets received
\* more than 10 * EVENT_WINDOW_MS ago, the others keeping their order, and
\* the packet just queued stays.
C29_RemovalFrame ==
    [][nextPid' = nextPid + 1 =>
          LET before == Append(Pids(pendingPackets), nextPid)
              group == {p \in 1..Len(accepted') : eventCounter' \in consumedBy'[p]}
              after == Pids(pendingPackets')
              gone == {before[i] : i \in 1..Len(before)}
                          \ {after[i] : i \in 1..Len(after)}
          IN /\ after = SelectSeq(before, LAMBDA p : p \notin gone)
             /\ IF eventCounter' > eventCounter
                THEN /\ Cardinality(group) = 3
                     /\ gone = group
                ELSE /\ nextPid \notin gone
                     /\ \A p \in gone :
                           now - accepted'[p].receivedAt > 10 * EVENT_WINDOW_MS]_vars

\* The solver rejected the triple of the first, third and fifth packet: the
\* second and the fourth stay pending, in that order
C29_Witness ==
    /\ Len(accepted) = 5
    /\ Len(soundEvents) = 1
    /\ soundEvents[1].position = Null
    /\ consumedBy[1] = {1} /\ consumedBy[3] = {1} /\ consumedBy[5] = {1}
    /\ Pids(pendingPackets) = <<2, 4>>

\* C30: a POST /packet handled while the mode is sync leaves the pending
\* queue, the event log and the event counter as they are, and one handled
\* while the mode is localize leaves the SyncBuffer, SyncRounds, ClockOffsets
\* and the mode as they are.
C30_ModeDispatchExclusive ==
    [][\A body \in RequestBodies :
          PostPacket(body, GNOutcomes) =>
              /\ currentMode = "sync" =>
                    UNCHANGED <<pendingPackets, soundEvents, eventCounter>>
              /\ currentMode = "localize" =>
                    UNCHANGED <<syncBuffer, syncRounds, clockOffsets, currentMode>>]_vars

\* An onset has just entered the SyncBuffer while an event is in the log and
\* a packet is pending
C30_Witness ==
    /\ currentMode = "sync"
    /\ response.status = "waiting"
    /\ syncBuffer # EmptyMap
    /\ Len(soundEvents) = 1
    /\ eventCounter = 1
    /\ Len(pendingPackets) = 1

\* The onset listener id reports in the sync round after the collected ones
RoundOnset(id) == RoundTime(Len(syncRounds) + 1) + drift[id]

\* C31: when the onset of the last listener completes a sync round, every
\* listener's round offset is the least onset of the round less the
\* listener's onset: it is at most 0, it is 0 for the earliest listener, and
\* onset plus offset is the same for all; the SyncBuffer is emptied and the
\* round is the last of the collected rounds: appended to SyncRounds, or the
\* SYNC_ROUNDS-th of a session that is committed at once.
C31_RoundOffsetsFromEarliest ==
    [][\A d \in DeviceSet :
          (/\ currentMode = "sync"
           /\ DOMAIN syncBuffer \cup {d} = DeviceSet
           /\ PostPacket(ClapBody(d, 9 + RoundOnset(d)), GNOutcomes)) =>
              LET minT == SetMin({RoundOnset(id) : id \in DeviceSet})
                  offsets == effects'[1].offsets
              IN /\ effects'[1].what = "onSyncRoundComplete"
                 /\ effects'[1].id = Len(syncRounds) + 1
                 /\ DOMAIN offsets = DeviceSet
                 /\ \A id \in DeviceSet :
                       /\ offsets[id] = minT - RoundOnset(id)
                       /\ offsets[id] <= 0
                       /\ RoundOnset(id) + offsets[id] = minT
                 /\ \E id \in DeviceSet : offsets[id] = 0
                 /\ syncBuffer' = EmptyMap
                 /\ IF Len(syncRounds) + 1 < SYNC_ROUNDS
                    THEN syncRounds' = Append(syncRounds, [offsets |-> offsets])
                    ELSE response'.status = "complete" /\ syncRounds' = <<>>]_vars

\* The third round of a session under the test drifts has just been
\* completed: phone-b, the earliest, has offset 0
C31_Witness ==
    /\ drift = TestDrifts
    /\ response.status = "round_complete"
    /\ Len(syncRounds) = 3
    /\ syncRounds[3].offsets = DriftOf(-23, 0, -8)
    /\ syncBuffer = EmptyMap

-----------------------------------------------------------------------------
(* SpecMedian: computeMedianOffsets on the rounds of a session.  The rounds
   are the sequences of up to MaxMedianRounds rounds in which phone-a has
   offset 0 and phone-b and phone-c offsets among OffsetValues, and the
   sessions of SYNC_ROUNDS rounds in which every round but one gives the same
   offsets.  The offsets are even, so that the mean of two of them is whole. *)

MaxMedianRounds == 3

OffsetValues == {-4, -2, 0}

RoundsOf == {[offsets |-> DriftOf(0, b, c)] : b, c \in OffsetValues}

RECURSIVE SeqsUpTo(_, _)
SeqsUpTo(S, n) ==
    IF n = 0 THEN {<<>>}
    ELSE LET shorter == SeqsUpTo(S, n - 1)
         IN shorter \cup {Append(s, x) : s \in {t \in shorter : Len(t) = n - 1}, x \in S}

\* SYNC_ROUNDS rounds, all equal to usual but the k-th, which is other
OutlierSession(usual, other, k) ==
    [r \in 1..SYNC_ROUNDS |-> IF r = k THEN other ELSE usual]

OutlierSessions ==
    {OutlierSession(usual, other, k) :
        usual \in RoundsOf, other \in RoundsOf, k \in 1..SYNC_ROUNDS}

InitMedian ==
    /\ InitStore
    /\ drift = NoDrift
    /\ detector = DetectorIdle
    /\ solver = SolverIdle
    /\ medianCall \in [rounds : (SeqsUpTo(RoundsOf, MaxMedianRounds) \ {<<>>})
                                    \cup OutlierSessions,
                       done : {FALSE}, result : {EmptyMap}]

\* computeMedianOffsets(rounds, deviceIds)
ComputeMedians ==
    /\ ~medianCall.done
    /\ medianCall' = [medianCall EXCEPT
                        !.done = TRUE,
                        !.result = computeMedianOffsets(medianCall.rounds, DeviceIds)]
    /\ response' = NoResponse
    /\ effects' = <<>>
    /\ UNCHANGED <<storeVars, wsClients, now, gnMemo, nextPid, accepted,
                   consumedBy, evicted, drift, detector, solver, sinceModeSet>>

NextMedian == ComputeMedians

SpecMedian == InitMedian /\ [][NextMedian]_vars

\* The orders in which n rounds can have been collected
RoundOrders(n) ==
    {f \in [1..n -> 1..n] : \A i, j \in 1..n : f[i] = f[j] => i = j}

\* C32: the offset computeMedianOffsets returns for a listener is the median
\* of the listener's offsets over the rounds: for an odd number of rounds a
\* value of the list with at most half of the others below it and at most
\* half above it, for an even number the mean of the two central values; and
\* the rounds taken in any other order give the same offsets.
C32_MedianOfRounds ==
    (medianCall.done /\ medianCall.rounds # <<>>) =>
        LET rounds == medianCall.rounds
            n == Len(rounds)
        IN /\ DOMAIN medianCall.result = DeviceSet
           /\ \A id \in DeviceSet :
                 LET m == medianCall.result[id]
                     below == {r \in 1..n : rounds[r].offsets[id] < m}
                     above == {r \in 1..n : rounds[r].offsets[id] > m}
                 IN IF n % 2 = 1
                    THEN /\ \E r \in 1..n : rounds[r].offsets[id] = m
                         /\ 2 * Cardinality(below) < n
                         /\ 2 * Cardinality(above) < n
                    ELSE \E lo, hi \in 1..n :
                            /\ lo # hi
                            /\ rounds[lo].offsets[id] <= rounds[hi].offsets[id]
                            /\ 2 * m = rounds[lo].offsets[id] + rounds[hi].offsets[id]
                            /\ Cardinality({r \in 1..n \ {lo, hi} :
                                   rounds[r].offsets[id] <= rounds[lo].offsets[id]})
                                 >= n \div 2 - 1
                            /\ Cardinality({r \in 1..n \ {lo, hi} :
                                   rounds[r].offsets[id] >= rounds[hi].offsets[id]})
                                 >= n \div 2 - 1
           /\ n <= MaxMedianRounds + 1 =>
                 \A f \in RoundOrders(n) :
                    computeMedianOffsets([r \in 1..n |-> rounds[f[r]]], DeviceIds)
                        = medianCall.result

\* Two rounds, collected with the larger offset of phone-b first: its median
\* is the mean of the two, a value of neither round
C32_Witness ==
    /\ medianCall.done
    /\ Len(medianCall.rounds) = 2
    /\ medianCall.rounds[1].offsets["phone-b"] = 0
    /\ medianCall.rounds[2].offsets["phone-b"] = -4
    /\ medianCall.result["phone-b"] = -2

\* C33: when nine of the ten rounds of a session give a listener the same
\* offset and one round another, the listener's median is the offset of the
\* nine.
C33_SingleOutlierIgnored ==
    (medianCall.done /\ Len(medianCall.rounds) = SYNC_ROUNDS) =>
        \A id \in DeviceSet, k \in 1..SYNC_ROUNDS :
            (\A r, q \in 1..SYNC_ROUNDS \ {k} :
                medianCall.rounds[r].offsets[id] = medianCall.rounds[q].offsets[id])
              => \E r \in 1..SYNC_ROUNDS \ {k} :
                    medianCall.result[id] = medianCall.rounds[r].offsets[id]

\* The fourth of ten rounds gave phone-c -4 and the others 0: the median is 0
C33_Witness ==
    /\ medianCall.done
    /\ Len(medianCall.rounds) = SYNC_ROUNDS
    /\ medianCall.rounds[4].offsets["phone-c"] = -4
    /\ \A r \in 1..SYNC_ROUNDS \ {4} : medianCall.rounds[r].offsets["phone-c"] = 0
    /\ medianCall.result["phone-c"] = 0

-----------------------------------------------------------------------------
(* The detector and the threshold *)

\* C34: on a nonempty packet, of one sample too, an onset the detector
\* returns has peak loudness at or above CLAP_THRESHOLD, and a packet whose
\* every sample is below CLAP_THRESHOLD yields null.
C34_OnsetOnlyAboveThreshold ==
    (detector.done /\ detector.samples # <<>>) =>
        /\ detector.onset # Null => detector.onset.loudnessDb >= CLAP_THRESHOLD
        /\ (\A i \in 1..Len(detector.samples) :
               detector.samples[i].loudnessDb < CLAP_THRESHOLD)
             => detector.onset = Null


\* The samples are in the order of their timestamps
SortedByTimestamp(samples) ==
    \A i \in 2..Len(samples) : samples[i - 1].timestamp <= samples[i].timestamp

\* loudness[i] - loudness[i-1]
FirstDifference(samples, i) == samples[i].loudnessDb - samples[i - 1].loudnessDb

\* d is the fraction num / range of dt, in whole ms: exactly when the product
\* divides, the whole ms below it otherwise
OnFraction(d, num, range, dt) ==
    /\ range > 0
    /\ d * range <= num * dt
    /\ num * dt < (d + 1) * range

C36_InterpolationInRange ==
    (detector.done /\ detector.crossing # <<>>) =>
        LET below == detector.crossing[1]
            above == detector.crossing[2]
            range == above.loudnessDb - below.loudnessDb
            num == CLAP_THRESHOLD - below.loudnessDb
            times == {detector.samples[i].timestamp : i \in 1..Len(detector.samples)}
        IN /\ below.loudnessDb < CLAP_THRESHOLD
           /\ CLAP_THRESHOLD <= above.loudnessDb
           /\ range > 0
           /\ 0 < num /\ num <= range
           /\ detector.onset # Null
           /\ below.timestamp <= detector.onset.timestamp
           /\ detector.onset.timestamp <= above.timestamp
           /\ SetMin(times) <= detector.onset.timestamp
           /\ detector.onset.timestamp <= SetMax(times)
           /\ OnFraction(detector.onset.timestamp - below.timestamp, num, range,
                         above.timestamp - below.timestamp)

\* A packet of three samples whose crossing lies half the way from a silent
\* sample to one at twice the threshold, two grid steps later
C36_Witness ==
    /\ detector.done
    /\ Len(detector.samples) = 3
    /\ detector.crossing # <<>>
    /\ detector.crossing[1].loudnessDb = 0
    /\ detector.crossing[2].loudnessDb = 2 * CLAP_THRESHOLD
    /\ detector.crossing[1].timestamp = 0
    /\ detector.crossing[2].timestamp = 2 * SampleStep
    /\ detector.onset.timestamp = SampleStep


\* The packet with its samples in the order f
Permuted(samples, f) == [i \in 1..Len(samples) |-> samples[f[i]]]

\* C37: for a packet of two or more samples with pairwise distinct
\* timestamps, the detector returns on every permutation of the samples an
\* onset with the same timestamp and peak loudness, or null on all of them.
C37_SampleOrderIrrelevant ==
    (/\ detector.done
     /\ Len(detector.samples) >= 2
     /\ \A i, j \in 1..Len(detector.samples) :
           detector.samples[i].timestamp = detector.samples[j].timestamp => i = j) =>
        \A f \in RoundOrders(Len(detector.samples)) :
            LET other == detectClapOnset(Permuted(detector.samples, f))
            IN IF detector.onset = Null THEN other = Null
               ELSE /\ other # Null
                    /\ other.timestamp = detector.onset.timestamp
                    /\ other.loudnessDb = detector.onset.loudnessDb

\* The samples came latest first; in the order of their timestamps they rise
\* from silence through half the threshold to twice the threshold, and the
\* onset lies a third of the way from the second to the third
C37_Witness ==
    /\ detector.done
    /\ Len(detector.samples) = 3
    /\ detector.samples[1] = [deviceId |-> "phone-a", timestamp |-> 2 * SampleStep,
                              loudnessDb |-> 2 * CLAP_THRESHOLD]
    /\ detector.samples[2] = [deviceId |-> "phone-a", timestamp |-> SampleStep,
                              loudnessDb |-> CLAP_THRESHOLD \div 2]
    /\ detector.samples[3] = [deviceId |-> "phone-a", timestamp |-> 0,
                              loudnessDb |-> 0]
    /\ detector.onset # Null
    /\ detector.onset.timestamp = SampleStep + SampleStep \div 3
    /\ detector.onset.loudnessDb = 2 * CLAP_THRESHOLD

-----------------------------------------------------------------------------
(* The ClockOffsets map and the mode *)

\* GET /mode: every configured listener has an offset
isSynced == \A id \in DOMAIN DEVICES : id \in DOMAIN clockOffsets

\* C38: the ClockOffsets map is empty or has an entry for every configured
\* listener and for no one else, every offset in it is <= 0, and isSynced is
\* true exactly when the map is not empty.
C38_OffsetsAllOrNone ==
    /\ clockOffsets = EmptyMap \/ DOMAIN clockOffsets = DeviceSet
    /\ \A id \in DOMAIN clockOffsets : clockOffsets[id] <= 0
    /\ isSynced <=> clockOffsets # EmptyMap

\* A session has committed offsets, one of them below 0, and a clap has been
\* localized under them
C38_Witness ==
    /\ currentMode = "localize"
    /\ isSynced
    /\ \E id \in DeviceSet : clockOffsets[id] < 0
    /\ Len(accepted) = 1
    /\ accepted[1].adjustedTimestamp
          = accepted[1].timestamp + clockOffsets[accepted[1].deviceId]

\* C39: while the mode is sync the ClockOffsets map is empty (isSynced is
\* false), so that the clearing of the offsets on the first packet of a
\* session finds nothing to remove.
C39_NoOffsetsInSyncMode ==
    currentMode = "sync" => (clockOffsets = EmptyMap /\ ~isSynced)

\* Sync mode has been entered again after a session whose offsets adjusted a
\* localized packet, and the first onset of the new session is in the buffer
C39_Witness ==
    /\ currentMode = "sync"
    /\ Len(syncRounds) = 0
    /\ syncBuffer # EmptyMap
    /\ clockOffsets = EmptyMap
    /\ Len(accepted) = 1
    /\ accepted[1].adjustedTimestamp < accepted[1].timestamp

=============================================================================
